---- MODULE Spec2Model ----
(***************************************************************************)
(* Model of the data-access core of the record-management application:     *)
(*   - the file-based write lock / read marker (common/db.py),             *)
(*   - the facade operations _query, _execute, _execute_many,              *)
(*   - the change log (_log_changes) and its polling DataNotifier,         *)
(*   - the per-row edit locks of EditLockManager,                          *)
(*   - the query language of SearchEngine (common/search_engine.py).       *)
(* The specifications of the module:                                       *)
(*   Spec      processes running facade operations under the lock files,   *)
(*   SpecLog   the change log written by the facade and read by a notifier,*)
(*   SpecEdit  clients requesting, cancelling and releasing edit locks,    *)
(*   SpecRetry _log_changes retrying its append after PermissionError,     *)
(*   SpecAttrs the get_* / update_* operations given attribute names,      *)
(*   SpecObj   database objects entering and finalizing edit mode,         *)
(*   SpecRelease release_edit_lock on any lock directory,                  *)
(*   SpecSearch the SearchEngine parsing and compiling user queries.       *)
(***************************************************************************)
EXTENDS Naturals, Integers, Sequences, FiniteSets, TLC

\* ------------------------------------------------------------------ bounds
\* Number of independent OS processes sharing the data directory.
NProcs == 2
\* Facade operations started by all processes together.
MaxCalls == 3
\* _log_changes calls in SpecLog.
MaxLogCalls == 3
\* Clients (processes, each with its own EditLockManager) in SpecEdit.
NClients == 2
\* stage_changes calls of all clients together.
MaxRequests == 2
\* Frames of _log_changes the interpreter allows on top of the caller's stack
\* (sys.getrecursionlimit() less the depth of the caller); any finite value
\* gives the same behaviour.
RecursionLimit == 3
\* Attribute names passed to one get_* / update_* call.
MaxAttrs == 2
\* Atoms of the strings tried exhaustively on _parse_user_input.
MaxInputLen == 4
\* Sub-terms written after the value of one clause.
MaxSubTerms == 2
\* Top-level clauses of one query.
MaxClauses == 3
\* The longest string compiled as it is, in atoms.
MaxRawLen == 2

Procs == 1..NProcs
Clients == 1..NClients

\* The rows edit locks are requested for: (table, where).
EditKeys == {<<"Persons", 1>>, <<"Cases", 1>>}

\* ------------------------------------------------------------- statements
\* A facade statement is (verb, table); Render gives the words of its SQL text.
Stmt(verb, table) == [verb |-> verb, table |-> table]

\* Every mutating statement text the facade hands to _execute/_execute_many.
FacadeStatements ==
    {Stmt("INSERT", t) : t \in {"Persons", "Cases", "Documents", "CasePeople", "CaseDocuments", "users"}}
    \cup {Stmt("DELETE", t) : t \in {"Persons", "Cases", "Documents", "CasePeople", "CaseDocuments"}}
    \cup {Stmt("UPDATE", t) : t \in {"Persons", "Cases", "Documents"}}
    \cup {Stmt("CREATE", t) : t \in {"Users", "Persons", "Cases", "CasePeople", "Documents", "CaseDocuments"}}

\* The SQL text of a statement as its whitespace/parenthesis separated words.
Render(s) ==
    CASE s.verb = "INSERT" -> <<"INSERT", "INTO", s.table, "(", "col", ")", "VALUES", "(", "?", ")">>
      [] s.verb = "UPDATE" -> <<"UPDATE", s.table, "SET", "col", "=", "?", "WHERE", "nb", "=", "?">>
      [] s.verb = "DELETE" -> <<"DELETE", "FROM", s.table, "WHERE", "nb", "=", "?">>
      [] OTHER -> <<"CREATE", "TABLE", "IF", "NOT", "EXISTS", s.table, "(", "col", ")">>

\* re.IGNORECASE on the keywords of the three patterns.
Upper(w) ==
    CASE w = "insert" -> "INSERT"
      [] w = "into" -> "INTO"
      [] w = "update" -> "UPDATE"
      [] w = "delete" -> "DELETE"
      [] w = "from" -> "FROM"
      [] OTHER -> w

\* First position at which the keyword sequence kws is followed by a word that can
\* be captured as the table name, 0 when the pattern does not match.
RECURSIVE SearchFrom(_, _, _)
SearchFrom(words, kws, i) ==
    IF i + Len(kws) > Len(words) THEN 0
    ELSE IF /\ \A j \in 1..Len(kws) : Upper(words[i + j - 1]) = kws[j]
            /\ words[i + Len(kws)] # "("
         THEN i + Len(kws)
         ELSE SearchFrom(words, kws, i + 1)

Captured(words, kws) ==
    LET at == SearchFrom(words, kws, 1)
    IN IF at = 0 THEN {} ELSE {words[at]}

\* The DELETE pattern left out.
_get_affected_tables_no_delete(words) ==
    Captured(words, <<"INSERT", "INTO">>)
    \cup Captured(words, <<"UPDATE">>)

_get_affected_tables(words) ==
    Captured(words, <<"INSERT", "INTO">>)
    \cup Captured(words, <<"UPDATE">>)
    \cup Captured(words, <<"DELETE", "FROM">>)

\* The markers of Persons and Documents exchanged.
MarkerGroups_swapped ==
    << <<"\t", {"Cases", "CasePeople", "CaseDocuments"}>>,
       <<" ", {"Persons"}>>,
       <<"\n", {"Documents"}>> >>

\* The (marker, tables) pairs of _log_changes, in the order they are written.
MarkerGroups ==
    << <<"\t", {"Cases", "CasePeople", "CaseDocuments"}>>,
       <<"\n", {"Persons"}>>,
       <<" ", {"Documents"}>> >>

RECURSIVE MarkersFrom(_, _)
MarkersFrom(tables, i) ==
    IF i > Len(MarkerGroups) THEN <<>>
    ELSE (IF tables \cap MarkerGroups[i][2] # {} THEN <<MarkerGroups[i][1]>> ELSE <<>>)
         \o MarkersFrom(tables, i + 1)

\* What one _log_changes(sql, params) call appends to the change log.
LogMarkers(s) == MarkersFrom(_get_affected_tables(Render(s)), 1)

\* ------------------------------------------------------------------ state
VARIABLES
    write_lock,     \* WRITE_LOCK_FILE exists
    read_lock,      \* number of characters in READ_LOCK_FILE
    changes_log,    \* content of CHANGES_LOG_FILE, a sequence of markers
    pc,             \* pc[p]: where process p is in its current facade operation
    op,             \* op[p]: the operation p runs: kind, statement, parameters left
    exc,            \* exc[p]: an exception is propagating out of p's with-body
    last_exit,      \* how the operation that finished last ended
    calls,          \* operations started so far, by all processes
    in_txn,         \* in_txn[p]: p's connection holds executed, uncommitted statements
    log_exists,     \* CHANGES_LOG_FILE exists
    \* the DataNotifier of one client
    last_position,  \* DataNotifier.last_position
    emitted,        \* the set the last poll handed to dataChanged.emit, {} when it emitted nothing
    \* bookkeeping of SpecLog, read only by the properties
    log_calls,      \* _log_changes calls so far
    last_stmt,      \* the statement of the last _log_changes call
    last_appended,  \* what that call appended
    synced,         \* the notifier had read the whole log when that call was made
    polls_since,    \* polls since the last _log_changes call (counted up to 2)
    pending,        \* markers appended since the last poll
    polled,         \* the value of pending when the last poll started
    reported,       \* reported[i]: number of polls that read the i-th marker of the log
    \* the edit locks
    edit_locks,     \* keys (table, where) whose edit_lock_<table>_<where>.lock file exists
    threads,        \* the _lock_row threads started so far, in the order they were started
    cancel_event,   \* cancel_event[c]: the Event client c's manager holds now is set
    lock_thread,    \* lock_thread[c]: the thread c's manager started last, 0 for None
    main,           \* main[c]: where client c's calling thread is
    \* bookkeeping of SpecEdit, read only by the properties
    holders,        \* holders[k]: threads whose callback ran since k's lock file was last removed
    creator,        \* creator[k]: the thread that created k's existing lock file last, 0 for none
    cancelled_after, \* threads whose lock file existed when their client called cancel_edit
    \* one _log_changes call with failing appends
    retry_depth,    \* frames of _log_changes on the stack, 0 when no call is running
    retry_stmt,     \* the sql of the running (or last) _log_changes call
    retry_exit,     \* how the last _log_changes call ended
    \* one get_* / update_* call of the facade
    attr_op,        \* the operation called
    attr_names,     \* the attribute names passed, in order (*_ or the keys of **kwargs)
    attr_exit,      \* how the call ended: "returned" or the exception raised
    attr_sql,       \* statements the call ran through _query / _execute
    \* the BaseDBObj of client c for row k, obj = <<c, k>>
    _edit_lock_acquired, \* BaseDBObj._edit_lock_acquired
    _edit_mode_engaged,  \* BaseDBObj._edit_mode_engaged
    release_exit,   \* the key and the way the last release_edit_lock call that found no file, removed it or failed ended
    \* one call of the SearchEngine
    search_op,      \* the method called last, "none" before the first call
    user_input,     \* the user_input it was called with
    written,        \* the clauses user_input spells, <<>> for an arbitrary string
    parsed,         \* what _parse_user_input made of user_input
    search_exit,    \* how the call ended: "returned" or the exception raised
    search_result,  \* the list get_sql_query_from_user_input returned, or the one triple of the restricted variant
    restricted_table  \* the group a restricted call was bound to, None otherwise

lockVars == <<write_lock, read_lock, pc, op, exc, last_exit, calls, in_txn>>
notifierVars == <<last_position, emitted, log_calls, last_stmt, last_appended, synced,
                  polls_since, pending, polled, reported>>
editVars == <<edit_locks, threads, cancel_event, lock_thread, main, holders, creator, cancelled_after,
              _edit_lock_acquired, _edit_mode_engaged, release_exit>>
retryVars == <<retry_depth, retry_stmt, retry_exit>>
attrVars == <<attr_op, attr_names, attr_exit, attr_sql>>
searchVars == <<search_op, user_input, written, parsed, search_exit, search_result, restricted_table>>
extVars == <<retryVars, attrVars, searchVars>>
vars == <<lockVars, changes_log, log_exists, notifierVars, editVars, extVars>>

\* Statements the processes of Spec run through _execute; _execute_many is only
\* ever called with the Persons INSERT (_insert_test_data).
ExecuteStatements == {Stmt("UPDATE", "Persons"), Stmt("INSERT", "CaseDocuments")}
ExecuteManyStatement == Stmt("INSERT", "Persons")
NoStmt == Stmt("SELECT", "Persons")

NoOp == [kind |-> "none", stmt |-> NoStmt, left |-> 0]

\* Positions between creating the marker file and leaving the with-block.
ScopePcs == {"q_exec", "x_exec", "x_commit", "x_log", "m_exec", "m_log", "m_commit",
             "wl_fin", "wl_remove"}
InWriteScope(p) == pc[p] \in ScopePcs

\* A client's calling thread outside every EditLockManager method.
NoKey == <<"", 0>>
Idle == [pc |-> "idle", key |-> NoKey, existed |-> FALSE, caller |-> ""]

\* The database objects: one per client and row.
Objs == Clients \X EditKeys

\* The state after construction, with the lock directory holding one of dirs.
InitFiles(dirs) ==
    /\ write_lock = FALSE
    /\ read_lock = 0
    /\ changes_log = <<>>
    /\ pc = [p \in Procs |-> "idle"]
    /\ op = [p \in Procs |-> NoOp]
    /\ exc = [p \in Procs |-> FALSE]
    /\ last_exit = "none"
    /\ calls = 0
    /\ in_txn = [p \in Procs |-> FALSE]
    /\ log_exists = FALSE
    /\ last_position = 0
    /\ emitted = {}
    /\ log_calls = 0
    /\ last_stmt = NoStmt
    /\ last_appended = <<>>
    /\ synced = TRUE
    /\ polls_since = 0
    /\ pending = <<>>
    /\ polled = <<>>
    /\ reported = <<>>
    /\ edit_locks \in dirs
    /\ threads = <<>>
    /\ cancel_event = [c \in Clients |-> FALSE]
    /\ lock_thread = [c \in Clients |-> 0]
    /\ main = [c \in Clients |-> Idle]
    /\ holders = [k \in EditKeys |-> {}]
    /\ creator = [k \in EditKeys |-> 0]
    /\ cancelled_after = {}
    /\ _edit_lock_acquired = [o \in Objs |-> FALSE]
    /\ _edit_mode_engaged = [o \in Objs |-> FALSE]
    /\ release_exit = [key |-> NoKey, how |-> "none"]
    /\ attr_op = "none"
    /\ attr_names = <<>>
    /\ attr_exit = "none"
    /\ attr_sql = 0
    /\ retry_depth = 0
    /\ retry_stmt = NoStmt
    /\ retry_exit = "none"
    /\ search_op = "none"
    /\ user_input = <<>>
    /\ written = <<>>
    /\ parsed = [none |-> TRUE, clauses |-> <<>>]
    /\ search_exit = "none"
    /\ search_result = <<>>
    /\ restricted_table = <<"None">>

\* A fresh data directory.
Init == InitFiles({{}})

\* ------------------------------------------------- facade entry points
\* _query under acquire_read_lock instead.
query_lock_read == "rl_check"

\* The lock _query takes around its SELECT: acquire_write_lock.
query_lock == "wl_check"

Start(p, kind, stmt, n, first) ==
    /\ pc[p] = "idle"
    /\ calls < MaxCalls
    /\ calls' = calls + 1
    /\ op' = [op EXCEPT ![p] = [kind |-> kind, stmt |-> stmt, left |-> n]]
    /\ pc' = [pc EXCEPT ![p] = first]
    /\ exc' = [exc EXCEPT ![p] = FALSE]
    /\ UNCHANGED <<write_lock, read_lock, changes_log, last_exit, in_txn, log_exists, notifierVars, editVars, extVars>>

_query(p) == Start(p, "query", NoStmt, 0, query_lock)

_execute(p) == \E s \in ExecuteStatements : Start(p, "execute", s, 0, "wl_check")

\* Lengths of the parameter list handed to one _execute_many call.
ParamCounts == {1, 2}

_execute_many(p) == \E n \in ParamCounts : Start(p, "execute_many", ExecuteManyStatement, n, "wl_check")

\* A caller entering `with acquire_read_lock():`.
read_scope(p) == Start(p, "read", NoStmt, 0, "rl_check")

\* -------------------------------------------------- acquire_write_lock
\* `while os.path.exists(WRITE_LOCK_FILE): sleep(0.1)`: one failed poll.
acquire_write_lock_wait(p) ==
    /\ pc[p] = "wl_check"
    /\ write_lock
    /\ UNCHANGED vars

\* The poll that finds no marker file and leaves the loop.
acquire_write_lock_pass(p) ==
    /\ pc[p] = "wl_check"
    /\ ~write_lock
    /\ pc' = [pc EXCEPT ![p] = "wl_create"]
    /\ UNCHANGED <<write_lock, read_lock, changes_log, op, exc, last_exit, calls, in_txn, log_exists, notifierVars, editVars, extVars>>

BodyEntry(kind) ==
    CASE kind = "query" -> "q_exec"
      [] kind = "execute" -> "x_exec"
      [] OTHER -> "m_exec"

\* `open(WRITE_LOCK_FILE, 'w').close()`, then the with-body starts.
acquire_write_lock_create(p) ==
    /\ pc[p] = "wl_create"
    /\ write_lock' = TRUE
    /\ pc' = [pc EXCEPT ![p] = BodyEntry(op[p].kind)]
    /\ UNCHANGED <<read_lock, changes_log, op, exc, last_exit, calls, in_txn, log_exists, notifierVars, editVars, extVars>>

\* A context manager without try/finally: an exception skips the release.
AfterBody_no_finally(raised) == IF raised THEN "idle" ELSE "wl_fin"

\* Where control goes when the with-body ends, normally or by an exception:
\* the generator's `finally`.
AfterBody(raised) == "wl_fin"

Finish(p, how) ==
    /\ pc' = [pc EXCEPT ![p] = "idle"]
    /\ last_exit' = how
    /\ op' = [op EXCEPT ![p] = NoOp]
    /\ exc' = [exc EXCEPT ![p] = FALSE]

\* `if os.path.exists(WRITE_LOCK_FILE):` of the finally block.
release_write_lock_check(p) ==
    /\ pc[p] = "wl_fin"
    /\ IF write_lock
       THEN /\ pc' = [pc EXCEPT ![p] = "wl_remove"]
            /\ UNCHANGED <<op, exc, last_exit>>
       ELSE Finish(p, IF exc[p] THEN "sql_error" ELSE "ok")
    /\ UNCHANGED <<write_lock, read_lock, changes_log, calls, in_txn, log_exists, notifierVars, editVars, extVars>>

\* `os.remove(WRITE_LOCK_FILE)`; FileNotFoundError when another process removed
\* the file since the check.
release_write_lock_remove(p) ==
    /\ pc[p] = "wl_remove"
    /\ write_lock' = FALSE
    /\ Finish(p, IF ~write_lock THEN "remove_error" ELSE IF exc[p] THEN "sql_error" ELSE "ok")
    /\ UNCHANGED <<read_lock, changes_log, calls, in_txn, log_exists, notifierVars, editVars, extVars>>

\* ---------------------------------------------------------- with-bodies
\* _query: cursor.execute(sql, params); fetchall().  The statement may raise.
query_run(p) ==
    /\ pc[p] = "q_exec"
    /\ \E raised \in BOOLEAN :
        /\ exc' = [exc EXCEPT ![p] = raised]
        /\ pc' = [pc EXCEPT ![p] = AfterBody(raised)]
    /\ UNCHANGED <<write_lock, read_lock, changes_log, op, last_exit, calls, in_txn, log_exists, notifierVars, editVars, extVars>>

\* _execute: cursor.execute(sql, params)
execute_run(p) ==
    /\ pc[p] = "x_exec"
    /\ \E raised \in BOOLEAN :
        /\ exc' = [exc EXCEPT ![p] = raised]
        /\ pc' = [pc EXCEPT ![p] = IF raised THEN AfterBody(TRUE) ELSE "x_commit"]
        /\ in_txn' = [in_txn EXCEPT ![p] = IF raised THEN @ ELSE TRUE]
    /\ UNCHANGED <<write_lock, read_lock, changes_log, op, last_exit, calls, log_exists, notifierVars, editVars, extVars>>

\* _execute: self._conn.commit()
execute_commit(p) ==
    /\ pc[p] = "x_commit"
    /\ in_txn' = [in_txn EXCEPT ![p] = FALSE]
    /\ pc' = [pc EXCEPT ![p] = "x_log"]
    /\ UNCHANGED <<write_lock, read_lock, changes_log, op, exc, last_exit, calls, log_exists, notifierVars, editVars, extVars>>

\* _log_changes opens the change log in append mode and enters no
\* acquire_write_lock of its own: control continues in the caller's with-body.
AfterLog_relock(next) == "wl_check"

AfterLog(next) == next

\* _execute: self._log_changes(sql, params)
execute_log(p) ==
    /\ pc[p] = "x_log"
    /\ changes_log' = changes_log \o LogMarkers(op[p].stmt)
    /\ log_exists' = TRUE
    /\ log_exists' = TRUE
    /\ pc' = [pc EXCEPT ![p] = AfterLog(AfterBody(FALSE))]
    /\ UNCHANGED <<write_lock, read_lock, op, exc, last_exit, calls, in_txn, notifierVars, editVars, extVars>>

\* _execute_many: cursor.execute(sql, param) for the next parameter tuple
execute_many_run(p) ==
    /\ pc[p] = "m_exec"
    /\ \E raised \in BOOLEAN :
        /\ exc' = [exc EXCEPT ![p] = raised]
        /\ pc' = [pc EXCEPT ![p] = IF raised THEN AfterBody(TRUE) ELSE "m_log"]
        /\ in_txn' = [in_txn EXCEPT ![p] = IF raised THEN @ ELSE TRUE]
    /\ UNCHANGED <<write_lock, read_lock, changes_log, op, last_exit, calls, log_exists, notifierVars, editVars, extVars>>

\* _execute_many: self._log_changes(sql, param) inside the loop
execute_many_log(p) ==
    /\ pc[p] = "m_log"
    /\ changes_log' = changes_log \o LogMarkers(op[p].stmt)
    /\ log_exists' = TRUE
    /\ log_exists' = TRUE
    /\ op' = [op EXCEPT ![p].left = @ - 1]
    /\ pc' = [pc EXCEPT ![p] = AfterLog(IF op[p].left > 1 THEN "m_exec" ELSE "m_commit")]
    /\ UNCHANGED <<write_lock, read_lock, exc, last_exit, calls, in_txn, notifierVars, editVars, extVars>>

\* _execute_many: self._conn.commit() after the loop
execute_many_commit(p) ==
    /\ pc[p] = "m_commit"
    /\ in_txn' = [in_txn EXCEPT ![p] = FALSE]
    /\ pc' = [pc EXCEPT ![p] = AfterBody(FALSE)]
    /\ UNCHANGED <<write_lock, read_lock, changes_log, op, exc, last_exit, calls, log_exists, notifierVars, editVars, extVars>>

\* --------------------------------------------------- acquire_read_lock
acquire_read_lock_wait(p) ==
    /\ pc[p] = "rl_check"
    /\ write_lock
    /\ UNCHANGED vars

acquire_read_lock_pass(p) ==
    /\ pc[p] = "rl_check"
    /\ ~write_lock
    /\ pc' = [pc EXCEPT ![p] = "rl_enter"]
    /\ UNCHANGED <<write_lock, read_lock, changes_log, op, exc, last_exit, calls, in_txn, log_exists, notifierVars, editVars, extVars>>

\* `with open(READ_LOCK_FILE, 'a') as f: f.write(" ")` on entry
acquire_read_lock_enter(p) ==
    /\ pc[p] = "rl_enter"
    /\ read_lock' = read_lock + 1
    /\ pc' = [pc EXCEPT ![p] = "rl_body"]
    /\ UNCHANGED <<write_lock, changes_log, op, exc, last_exit, calls, in_txn, log_exists, notifierVars, editVars, extVars>>

\* The caller's with-body; it may raise.
read_body(p) ==
    /\ pc[p] = "rl_body"
    /\ \E raised \in BOOLEAN : exc' = [exc EXCEPT ![p] = raised]
    /\ pc' = [pc EXCEPT ![p] = "rl_exit"]
    /\ UNCHANGED <<write_lock, read_lock, changes_log, op, last_exit, calls, in_txn, log_exists, notifierVars, editVars, extVars>>

\* the finally block: a second " " is appended
acquire_read_lock_exit(p) ==
    /\ pc[p] = "rl_exit"
    /\ read_lock' = read_lock + 1
    /\ Finish(p, IF exc[p] THEN "read_error" ELSE "read_ok")
    /\ UNCHANGED <<write_lock, changes_log, calls, in_txn, log_exists, notifierVars, editVars, extVars>>

\* ------------------------------------------------------------ Spec
Next ==
    \E p \in Procs :
        \/ _query(p)
        \/ _execute(p)
        \/ _execute_many(p)
        \/ read_scope(p)
        \/ acquire_write_lock_wait(p)
        \/ acquire_write_lock_pass(p)
        \/ acquire_write_lock_create(p)
        \/ query_run(p)
        \/ execute_run(p)
        \/ execute_commit(p)
        \/ execute_log(p)
        \/ execute_many_run(p)
        \/ execute_many_log(p)
        \/ execute_many_commit(p)
        \/ release_write_lock_check(p)
        \/ release_write_lock_remove(p)
        \/ acquire_read_lock_wait(p)
        \/ acquire_read_lock_pass(p)
        \/ acquire_read_lock_enter(p)
        \/ read_body(p)
        \/ acquire_read_lock_exit(p)

Spec == Init /\ [][Next]_vars

\* A running process keeps executing: some step of Next is eventually taken.
SpecLive == Spec /\ WF_vars(Next)

\* ------------------------------------------------------ lock properties
AllIdle == \A p \in Procs : pc[p] = "idle"

IsWriter(p) == op[p].kind \in {"execute", "execute_many"}
IsReader(p) == op[p].kind = "query"

\* C1: at most one process is inside a write-lock scope (between creating the
\* marker file and leaving the scope) in every reachable state.
C1_WriteLockMutex == Cardinality({p \in Procs : InWriteScope(p)}) <= 1

\* C3: whenever a process leaves a write-lock scope, normally or because its
\* statement raised, the marker file is gone; and once every operation has
\* completed the marker file does not exist.
C3_GuaranteedRelease ==
    /\ [](AllIdle => ~write_lock)
    /\ [][\A p \in Procs : (InWriteScope(p) /\ pc'[p] = "idle") => ~write_lock']_vars

\* C3 witness: an operation has left its scope through an error and the marker is gone.
C3_Witness == AllIdle /\ last_exit = "sql_error" /\ ~write_lock

C5_ReadMarkerOnlyWithoutWriter ==
    [][\A p \in Procs :
        (pc[p] = "rl_enter" /\ pc'[p] = "rl_body") => ~\E q \in Procs : InWriteScope(q)
      ]_vars

\* C8: whenever _execute or _execute_many appends the change markers of a
\* statement, that statement is already committed and the process is still
\* inside the write-lock scope taken for it.
C8_MarkersAfterCommit ==
    \A p \in Procs : pc[p] \in {"x_log", "m_log"} => (~in_txn[p] /\ InWriteScope(p))

\* ------------------------------------------------- change log and notifier
Range(seq) == {seq[i] : i \in 1..Len(seq)}

Min(a, b) == IF a < b THEN a ELSE b

\* _log_changes, the try block: the markers of the statement are appended.
AppendMarkers(s) ==
    /\ changes_log' = changes_log \o LogMarkers(s)
    /\ log_exists' = TRUE
    /\ log_calls' = log_calls + 1
    /\ last_stmt' = s
    /\ last_appended' = SubSeq(changes_log', Len(changes_log) + 1, Len(changes_log'))
    /\ synced' = (last_position = Len(changes_log))
    /\ polls_since' = 0
    /\ pending' = pending \o last_appended'
    /\ reported' = reported \o [i \in 1..Len(last_appended') |-> 0]
    /\ UNCHANGED <<lockVars, editVars, last_position, emitted, polled>>

\* DatabaseAccess._log_changes(sql, params): one append of the statement's markers.
_log_changes(s) ==
    /\ log_calls < MaxLogCalls
    /\ AppendMarkers(s)
    /\ UNCHANGED extVars

\* The notifier re-reading the file from its start.
poll_seek_start(position) == 0

\* log_file.seek(self.last_position)
poll_seek(position) == position

\* log_file.read(): everything from the offset to the end of the file.
poll_read(log, start) ==
    IF start >= Len(log) THEN <<>> ELSE SubSeq(log, start + 1, Len(log))

\* DataNotifier.poll_for_changes
poll_for_changes ==
    /\ IF log_exists
       THEN LET start == poll_seek(last_position)
                changes == poll_read(changes_log, start)
            IN /\ last_position' = start + Len(changes)
               /\ emitted' = IF changes # <<>> THEN Range(changes) ELSE {}
               /\ reported' = [i \in 1..Len(reported) |->
                                 IF i > start THEN reported[i] + 1 ELSE reported[i]]
       ELSE /\ emitted' = {}
            /\ UNCHANGED <<last_position, reported>>
    /\ polled' = pending
    /\ pending' = <<>>
    /\ polls_since' = Min(polls_since + 1, 2)
    /\ UNCHANGED <<lockVars, editVars, extVars, changes_log, log_exists, log_calls, last_stmt, last_appended, synced>>

NextLog ==
    \/ \E s \in FacadeStatements : _log_changes(s)
    \/ poll_for_changes

SpecLog == Init /\ [][NextLog]_vars

\* ------------------------------------------- _log_changes under PermissionError
\* A caller (_execute, _execute_many) enters _log_changes(sql, params).
log_changes_call(s) ==
    /\ retry_depth = 0
    /\ log_calls < MaxLogCalls
    /\ retry_depth' = 1
    /\ retry_stmt' = s
    /\ retry_exit' = "none"
    /\ UNCHANGED <<lockVars, editVars, changes_log, log_exists, notifierVars, attrVars, searchVars>>

\* What the except block does at depth d: calls cls._log_changes(sql, params)
\* again, which the interpreter refuses with RecursionError at its limit.
log_changes_retry(d) == IF d < RecursionLimit THEN d + 1 ELSE 0

\* open(CHANGES_LOG_FILE, 'a') raises PermissionError: print, then the
\* recursive call.  The RecursionError of that call is not a PermissionError
\* and leaves every frame.
log_changes_PermissionError ==
    /\ retry_depth > 0
    /\ retry_depth' = log_changes_retry(retry_depth)
    /\ retry_exit' = IF retry_depth' = 0 THEN "RecursionError" ELSE retry_exit
    /\ UNCHANGED <<lockVars, editVars, changes_log, log_exists, notifierVars, retry_stmt, attrVars, searchVars>>

\* open succeeds: the markers are written and every frame returns.
log_changes_append ==
    /\ retry_depth > 0
    /\ AppendMarkers(retry_stmt)
    /\ retry_depth' = 0
    /\ retry_exit' = "returned"
    /\ UNCHANGED <<retry_stmt, attrVars, searchVars>>

NextRetry ==
    \/ \E s \in FacadeStatements : log_changes_call(s)
    \/ log_changes_PermissionError
    \/ log_changes_append

SpecRetry == Init /\ [][NextRetry]_vars

\* C11: a _log_changes call whose appends failed with PermissionError any
\* finite number of times in a row ends by returning normally with the
\* statement's markers appended to the log.
C11_RetryUntilLogged ==
    (retry_depth = 0 /\ retry_exit # "none") =>
        /\ retry_exit = "returned"
        /\ last_stmt = retry_stmt
        /\ last_appended = LogMarkers(retry_stmt)

\* ---------------------------------------------------- change log properties
IsMutation(s) == s.verb \in {"INSERT", "UPDATE", "DELETE"}

C7_NotifierDelivery ==
    /\ [](/\ last_position <= Len(changes_log)
          /\ emitted = Range(polled)
          /\ Len(pending) = Len(changes_log) - last_position
          /\ Len(reported) = Len(changes_log)
          /\ \A i \in 1..Len(reported) : reported[i] = IF i <= last_position THEN 1 ELSE 0)
    /\ [][last_position' >= last_position]_vars

\* C7 witness: a poll that read three markers, two of them equal, and emitted two.
C7_Witness ==
    /\ polls_since = 1 /\ Len(polled) = 3 /\ Cardinality(emitted) = 2
    /\ last_position = Len(changes_log) /\ last_position > 0

\* The marker of the logical group a table belongs to, as the claim lists them.
GroupMarkerOf(t) ==
    CASE t \in {"Cases", "CasePeople", "CaseDocuments"} -> {"\t"}
      [] t = "Persons" -> {"\n"}
      [] t = "Documents" -> {" "}
      [] OTHER -> {}

\* C9: an INSERT/UPDATE/DELETE statement appends exactly one marker per distinct
\* logical group among its target tables (tab for the Cases family, newline for
\* Persons, space for Documents): k groups give exactly k markers.
C9_MarkerClassification ==
    (log_calls > 0 /\ IsMutation(last_stmt)) =>
        LET expected == GroupMarkerOf(last_stmt.table)
        IN /\ Range(last_appended) = expected
           /\ Len(last_appended) = Cardinality(expected)

\* C9 witness: a DELETE on CaseDocuments appended the tab marker.
C9_Witness ==
    /\ log_calls > 0 /\ last_stmt = Stmt("DELETE", "CaseDocuments")
    /\ last_appended = <<"\t">>

\* ------------------------------------------ attribute names of get_* / update_*
\* Columns of the tables as _setup_database creates them.
PersonsColumns == {"nb", "last_name", "first_name", "address", "birth_date", "contact_info",
                   "gender", "description", "notes", "can_be_lawyer"}

\* The attribute names each operation documents or tests for.
AllowedAttrs(opname) ==
    CASE opname \in {"get_persons", "update_persons"} ->
             {"last_name", "first_name", "address", "birth_date", "contact_info", "gender",
              "description", "notes", "can_be_lawyer", "cases"}
      [] opname \in {"get_cases", "update_cases"} ->
             {"name", "description", "notes", "persons", "documents"}
      [] OTHER -> {"name", "description", "notes", "path", "cases"}

AttrOps == {"get_persons", "update_persons", "get_cases", "update_cases",
            "get_documents", "update_documents"}

\* Names a caller may pass: every documented name, the columns nb and archived
\* that no operation lists, and a name no table has.
AttrNames == AllowedAttrs("get_persons") \cup AllowedAttrs("get_cases")
                 \cup AllowedAttrs("get_documents") \cup {"nb", "archived", "bogus"}

SeqsUpTo(S, n) == UNION {[1..m -> S] : m \in 0..n}

IsDistinct(seq) == \A i, j \in 1..Len(seq) : seq[i] = seq[j] => i = j

\* list.index(x): the first position of x, 0 when x is not in the list.
IndexOf(seq, x) ==
    IF \E i \in 1..Len(seq) : seq[i] = x
    THEN CHOOSE i \in 1..Len(seq) : seq[i] = x /\ \A j \in 1..(i - 1) : seq[j] # x
    ELSE 0

\* del _[index]
DelAt(seq, i) == SubSeq(seq, 1, i - 1) \o SubSeq(seq, i + 1, Len(seq))

Result(how, n) == [exit |-> how, sql |-> n]

\* get_persons: "cases" is taken out of the list once, every other name goes
\* into the SELECT list as p.<name> unchecked; sqlite3 raises OperationalError
\* (no such column) for a name that is not a column of Persons.
get_persons(names) ==
    LET index == IndexOf(names, "cases")
        cols == IF index # 0 THEN DelAt(names, index) ELSE names
    IN IF cols # <<>> /\ \E i \in 1..Len(cols) : cols[i] \notin PersonsColumns
       THEN Result("OperationalError", 1)
       ELSE Result("returned", (IF cols # <<>> THEN 1 ELSE 0) + (IF index # 0 THEN 1 ELSE 0))

\* The loops of get_cases, get_documents and update_*: names are handled in
\* order, each known name runs its statements, the first other name raises
\* ValueError.  cost[n] is the number of statements name n runs in the loop.
RECURSIVE AttrLoop(_, _, _, _)
AttrLoop(names, i, cost, n) ==
    IF i > Len(names) THEN Result("returned", n)
    ELSE IF names[i] \in DOMAIN cost
         THEN AttrLoop(names, i + 1, cost, n + cost[names[i]])
         ELSE Result("ValueError", n)

get_cases(names) ==
    AttrLoop(names, 1, [a \in {"name", "description", "notes", "persons", "documents"} |->
                           IF a = "persons" THEN 2 ELSE 1], 0)

get_documents(names) ==
    AttrLoop(names, 1, [a \in {"name", "description", "notes", "path", "cases"} |-> 1], 0)

\* update_*: a column name is collected for the final UPDATE, a relation name
\* runs its DELETE at once (and one INSERT per value, none here).
UpdateLoop(names, columns, relations) ==
    LET r == AttrLoop(names, 1, [a \in columns \cup relations |-> IF a \in relations THEN 1 ELSE 0], 0)
    IN IF r.exit = "returned" /\ \E i \in 1..Len(names) : names[i] \in columns
       THEN Result("returned", r.sql + 1)
       ELSE r

update_persons(names) ==
    UpdateLoop(names, {"last_name", "first_name", "address", "birth_date", "contact_info",
                       "gender", "description", "notes", "can_be_lawyer"}, {"cases"})

update_cases(names) ==
    UpdateLoop(names, {"name", "description", "notes"}, {"persons", "documents"})

update_documents(names) ==
    UpdateLoop(names, {"name", "description", "notes", "path"}, {"cases"})

AttrCall(opname, names) ==
    CASE opname = "get_persons" -> get_persons(names)
      [] opname = "update_persons" -> update_persons(names)
      [] opname = "get_cases" -> get_cases(names)
      [] opname = "update_cases" -> update_cases(names)
      [] opname = "get_documents" -> get_documents(names)
      [] OTHER -> update_documents(names)

\* One call of a get_* (names as positional arguments) or update_* (names as
\* keyword arguments, hence distinct) operation for an existing row.
facade_attr_call(opname, names) ==
    /\ opname \in {"update_persons", "update_cases", "update_documents"} => IsDistinct(names)
    /\ attr_op' = opname
    /\ attr_names' = names
    /\ attr_exit' = AttrCall(opname, names).exit
    /\ attr_sql' = AttrCall(opname, names).sql
    /\ UNCHANGED <<lockVars, changes_log, log_exists, notifierVars, editVars, retryVars, searchVars>>

NextAttrs == \E opname \in AttrOps, names \in SeqsUpTo(AttrNames, MaxAttrs) : facade_attr_call(opname, names)

SpecAttrs == Init /\ [][NextAttrs]_vars

\* C14: a get_* or update_* call that names an attribute outside the
\* operation's allowed set ends with an error.
C14_UnknownAttributeRejected ==
    (attr_exit # "none" /\ \E i \in 1..Len(attr_names) : attr_names[i] \notin AllowedAttrs(attr_op)) =>
        attr_exit \in {"ValueError", "OperationalError"}

\* ------------------------------------------------------ EditLockManager
otherVars == <<lockVars, changes_log, log_exists, notifierVars, retryVars, attrVars, searchVars>>

Thread(t) == threads[t]
ThreadIds == 1..Len(threads)

SetThreadPc(t, to) == threads' = [threads EXCEPT ![t].pc = to]

\* The body of stage_changes: a fresh Event replaces the manager's, and a
\* thread running _lock_row is started.
StartLockThread(c, k) ==
    /\ Len(threads) < MaxRequests
    /\ cancel_event' = [cancel_event EXCEPT ![c] = FALSE]
    /\ threads' = Append(threads, [client |-> c, key |-> k, pc |-> "check", called |-> 0])
    /\ lock_thread' = [lock_thread EXCEPT ![c] = Len(threads) + 1]

\* EditLockManager.stage_changes(where, table, callback)
stage_changes(c, k) ==
    /\ main[c].pc = "idle"
    /\ StartLockThread(c, k)
    /\ UNCHANGED <<edit_locks, main, holders, creator, cancelled_after,
                   _edit_lock_acquired, _edit_mode_engaged, release_exit, otherVars>>

\* _lock_row: `while os.path.exists(lock_file_path):`
lock_row_check(t) ==
    /\ Thread(t).pc = "check"
    /\ SetThreadPc(t, IF Thread(t).key \in edit_locks THEN "waiting" ELSE "create")
    /\ UNCHANGED <<edit_locks, cancel_event, lock_thread, main, holders, creator, cancelled_after,
                   _edit_lock_acquired, _edit_mode_engaged, release_exit, otherVars>>

\* _lock_row, in the loop: `if self.cancel_event.is_set(): return`, else sleep(1)
lock_row_waiting(t) ==
    /\ Thread(t).pc = "waiting"
    /\ SetThreadPc(t, IF cancel_event[Thread(t).client] THEN "finally" ELSE "check")
    /\ UNCHANGED <<edit_locks, cancel_event, lock_thread, main, holders, creator, cancelled_after,
                   _edit_lock_acquired, _edit_mode_engaged, release_exit, otherVars>>

\* _lock_row: `with open(lock_file_path, 'w') as lock_file: ...`
lock_row_create(t) ==
    /\ Thread(t).pc = "create"
    /\ edit_locks' = edit_locks \cup {Thread(t).key}
    /\ creator' = [creator EXCEPT ![Thread(t).key] = t]
    /\ SetThreadPc(t, "callback")
    /\ UNCHANGED <<cancel_event, lock_thread, main, holders, cancelled_after,
                   _edit_lock_acquired, _edit_mode_engaged, release_exit, otherVars>>

\* _lock_row: `callback()`, the _callback of the object that staged the change
\* (BaseDBObj.edit is the only caller of stage_changes).
lock_row_callback(t) ==
    /\ Thread(t).pc = "callback"
    /\ threads' = [threads EXCEPT ![t].pc = "finally", ![t].called = @ + 1]
    /\ holders' = [holders EXCEPT ![Thread(t).key] = @ \cup {t}]
    /\ _edit_lock_acquired' = [_edit_lock_acquired EXCEPT ![<<Thread(t).client, Thread(t).key>>] = TRUE]
    /\ UNCHANGED <<edit_locks, cancel_event, lock_thread, main, creator, cancelled_after,
                   _edit_mode_engaged, release_exit, otherVars>>

\* _lock_row, finally: `if self.cancel_event.is_set() and ...`
lock_row_finally(t) ==
    /\ Thread(t).pc = "finally"
    /\ SetThreadPc(t, IF cancel_event[Thread(t).client] THEN "fin_exists" ELSE "done")
    /\ UNCHANGED <<edit_locks, cancel_event, lock_thread, main, holders, creator, cancelled_after,
                   _edit_lock_acquired, _edit_mode_engaged, release_exit, otherVars>>

\* _lock_row, finally: `... and os.path.exists(lock_file_path):`
lock_row_finally_exists(t) ==
    /\ Thread(t).pc = "fin_exists"
    /\ SetThreadPc(t, IF Thread(t).key \in edit_locks THEN "remove" ELSE "done")
    /\ UNCHANGED <<edit_locks, cancel_event, lock_thread, main, holders, creator, cancelled_after,
                   _edit_lock_acquired, _edit_mode_engaged, release_exit, otherVars>>

\* os.remove(lock_file_path) of key k: the file goes; when it is already gone
\* the call raises FileNotFoundError and nothing changes.
RemoveLockFile(k) ==
    IF k \in edit_locks
    THEN /\ edit_locks' = edit_locks \ {k}
         /\ holders' = [holders EXCEPT ![k] = {}]
         /\ creator' = [creator EXCEPT ![k] = 0]
    ELSE UNCHANGED <<edit_locks, holders, creator>>

\* _lock_row, finally: `os.remove(lock_file_path)` (FileNotFoundError ends the
\* thread when the file is gone since the test)
lock_row_remove(t) ==
    /\ Thread(t).pc = "remove"
    /\ RemoveLockFile(Thread(t).key)
    /\ SetThreadPc(t, "done")
    /\ UNCHANGED <<cancel_event, lock_thread, main, cancelled_after,
                   _edit_lock_acquired, _edit_mode_engaged, release_exit, otherVars>>

ThreadAlive(t) == Thread(t).pc # "done"

\* The thread has created its lock file.
Created(t) == Thread(t).pc = "callback" \/ Thread(t).called > 0

\* EditLockManager.cancel_edit: set the event, then join the thread if it is
\* alive.  With lock_thread None the call ends in AttributeError after the set.
cancel_edit(c) ==
    /\ main[c].pc = "idle"
    /\ cancel_event' = [cancel_event EXCEPT ![c] = TRUE]
    /\ IF lock_thread[c] = 0
       THEN UNCHANGED <<main, cancelled_after>>
       ELSE /\ main' = [main EXCEPT ![c].pc = IF ThreadAlive(lock_thread[c]) THEN "join" ELSE "idle"]
            /\ cancelled_after' = IF Created(lock_thread[c])
                                  THEN cancelled_after \cup {lock_thread[c]}
                                  ELSE cancelled_after
    /\ UNCHANGED <<edit_locks, threads, lock_thread, holders, creator,
                   _edit_lock_acquired, _edit_mode_engaged, release_exit, otherVars>>

\* cancel_edit: `self.lock_thread.join()` returns
cancel_edit_joined(c) ==
    /\ main[c].pc = "join"
    /\ ~ThreadAlive(lock_thread[c])
    /\ main' = [main EXCEPT ![c].pc = "idle"]
    /\ UNCHANGED <<edit_locks, threads, cancel_event, lock_thread, holders, creator, cancelled_after,
                   _edit_lock_acquired, _edit_mode_engaged, release_exit, otherVars>>

\* release_edit_lock without its test: os.remove whatever the directory holds.
release_exists_always(k) == TRUE

\* release_edit_lock: `if os.path.exists(lock_file_path):`
release_exists(k) == k \in edit_locks

\* Where the caller of release_edit_lock goes on when the call has returned:
\* finalize_edit to its update_* call, any other caller is done.
AfterRelease(k, caller) ==
    IF caller = "finalize_edit"
    THEN [pc |-> "fin_update", key |-> k, existed |-> FALSE, caller |-> ""]
    ELSE Idle

\* release_edit_lock up to its branch: with a file, os.remove comes next;
\* without, "No lock found" is printed and the call returns.
ReleaseCheck(c, k, caller) ==
    IF release_exists(k)
    THEN /\ main' = [main EXCEPT ![c] = [pc |-> "rel_remove", key |-> k,
                                         existed |-> k \in edit_locks, caller |-> caller]]
         /\ UNCHANGED release_exit
    ELSE /\ main' = [main EXCEPT ![c] = AfterRelease(k, caller)]
         /\ release_exit' = [key |-> k, how |-> "absent"]

\* EditLockManager.release_edit_lock(where, table)
release_edit_lock(c, k) ==
    /\ main[c].pc = "idle"
    /\ ReleaseCheck(c, k, "")
    /\ UNCHANGED <<edit_locks, threads, cancel_event, lock_thread, holders, creator, cancelled_after,
                   _edit_lock_acquired, _edit_mode_engaged, otherVars>>

\* release_edit_lock: `os.remove(lock_file_path)`; its FileNotFoundError
\* leaves release_edit_lock and its caller.
release_edit_lock_remove(c) ==
    /\ main[c].pc = "rel_remove"
    /\ RemoveLockFile(main[c].key)
    /\ release_exit' = [key |-> main[c].key,
                        how |-> IF main[c].key \in edit_locks THEN "removed" ELSE "FileNotFoundError"]
    /\ main' = [main EXCEPT ![c] = IF main[c].key \in edit_locks
                                   THEN AfterRelease(main[c].key, main[c].caller)
                                   ELSE Idle]
    /\ UNCHANGED <<threads, cancel_event, lock_thread, cancelled_after,
                   _edit_lock_acquired, _edit_mode_engaged, otherVars>>

NextEdit ==
    \/ \E c \in Clients, k \in EditKeys : stage_changes(c, k)
    \/ \E c \in Clients : cancel_edit(c)
    \/ \E c \in Clients : cancel_edit_joined(c)
    \/ \E c \in Clients, k \in EditKeys : release_edit_lock(c, k)
    \/ \E c \in Clients : release_edit_lock_remove(c)
    \/ \E t \in ThreadIds : lock_row_check(t)
    \/ \E t \in ThreadIds : lock_row_waiting(t)
    \/ \E t \in ThreadIds : lock_row_create(t)
    \/ \E t \in ThreadIds : lock_row_callback(t)
    \/ \E t \in ThreadIds : lock_row_finally(t)
    \/ \E t \in ThreadIds : lock_row_finally_exists(t)
    \/ \E t \in ThreadIds : lock_row_remove(t)

SpecEdit == Init /\ [][NextEdit]_vars

\* ------------------------------------------------------------- BaseDBObj
\* BaseDBObj.edit of the object of client c for row k, up to its wait loop.
edit(c, k) ==
    /\ main[c].pc = "idle"
    /\ _edit_mode_engaged' = [_edit_mode_engaged EXCEPT ![<<c, k>>] = TRUE]
    /\ StartLockThread(c, k)
    /\ main' = [main EXCEPT ![c] = [pc |-> "edit_wait", key |-> k, existed |-> FALSE, caller |-> ""]]
    /\ UNCHANGED <<edit_locks, holders, creator, cancelled_after, _edit_lock_acquired, release_exit, otherVars>>

\* edit: `while not self._edit_lock_acquired: sleep(0.1)` is left
edit_return(c) ==
    /\ main[c].pc = "edit_wait"
    /\ _edit_lock_acquired[<<c, main[c].key>>]
    /\ main' = [main EXCEPT ![c] = Idle]
    /\ UNCHANGED <<edit_locks, threads, cancel_event, lock_thread, holders, creator, cancelled_after,
                   _edit_lock_acquired, _edit_mode_engaged, release_exit, otherVars>>

\* finalize_edit: _edit_mode_engaged = False, then release_edit_lock
finalize_edit(c, k) ==
    /\ main[c].pc = "idle"
    /\ _edit_mode_engaged' = [_edit_mode_engaged EXCEPT ![<<c, k>>] = FALSE]
    /\ ReleaseCheck(c, k, "finalize_edit")
    /\ UNCHANGED <<edit_locks, threads, cancel_event, lock_thread, holders, creator, cancelled_after,
                   _edit_lock_acquired, otherVars>>

\* finalize_edit: update_documents / update_cases / update_persons with the
\* snapshot, then _edit_lock_acquired = False; an exception of the update
\* (IntegrityError for a case name in use, a locked database) skips the reset.
finalize_edit_update(c, raised) ==
    /\ main[c].pc = "fin_update"
    /\ _edit_lock_acquired' = IF raised THEN _edit_lock_acquired
                              ELSE [_edit_lock_acquired EXCEPT ![<<c, main[c].key>>] = FALSE]
    /\ main' = [main EXCEPT ![c] = Idle]
    /\ UNCHANGED <<edit_locks, threads, cancel_event, lock_thread, holders, creator, cancelled_after,
                   _edit_mode_engaged, release_exit, otherVars>>

NextObj ==
    \/ \E c \in Clients, k \in EditKeys : edit(c, k)
    \/ \E c \in Clients : edit_return(c)
    \/ \E c \in Clients, k \in EditKeys : finalize_edit(c, k)
    \/ \E c \in Clients : release_edit_lock_remove(c)
    \/ \E c \in Clients, raised \in BOOLEAN : finalize_edit_update(c, raised)
    \/ \E t \in ThreadIds : lock_row_check(t)
    \/ \E t \in ThreadIds : lock_row_waiting(t)
    \/ \E t \in ThreadIds : lock_row_create(t)
    \/ \E t \in ThreadIds : lock_row_callback(t)
    \/ \E t \in ThreadIds : lock_row_finally(t)

SpecObj == Init /\ [][NextObj]_vars

\* Clients releasing edit locks, directly and through finalize_edit, in a lock directory that holds any set of lock
\* files when the managers are constructed (files of earlier runs stay there).
InitRelease == InitFiles(SUBSET EditKeys)

NextRelease ==
    \/ \E c \in Clients, k \in EditKeys : release_edit_lock(c, k)
    \/ \E c \in Clients, k \in EditKeys : finalize_edit(c, k)
    \/ \E c \in Clients : release_edit_lock_remove(c)
    \/ \E c \in Clients, raised \in BOOLEAN : finalize_edit_update(c, raised)

SpecRelease == InitRelease /\ [][NextRelease]_vars

\* ------------------------------------------------------ edit lock properties
\* C2: the callbacks of the requests of two clients for the same (table, rowId)
\* are never both invoked unless the key's lock file was released (removed)
\* between the two invocations: at most one client holds a key at any time.
C2_EditLockExclusive ==
    \A k \in EditKeys : Cardinality({Thread(t).client : t \in holders[k]}) <= 1

\* C10: when cancel_edit was called after the background task had created the
\* lock file, then once cancel_edit has returned and the task has ended the
\* lock file that task created is removed, and its callback ran at most once.
C10_CancelAfterAcquire ==
    \A t \in cancelled_after :
        (~ThreadAlive(t) /\ main[Thread(t).client].pc = "idle") =>
            /\ ~(Thread(t).key \in edit_locks /\ creator[Thread(t).key] = t)
            /\ Thread(t).called <= 1

\* C12: BaseDBObj.edit returns only after the callback of the thread its own
\* stage_changes call started has been invoked (hence after that thread has
\* created the lock file).
C12_EditWaitsForOwnCallback ==
    [][\A c \in Clients :
          (main[c].pc = "edit_wait" /\ main'[c].pc = "idle") =>
              Thread(lock_thread[c]).called > 0]_vars

\* C13: release_edit_lock(table, rowId) ends with the key's lock file absent
\* and every other key's lock file as it was; it raises no error when the file
\* was absent at the call, and then changes nothing (so a second call after a
\* first changes nothing).
C13_ReleaseEditLock ==
    [][LET leaving == {c \in Clients : main[c].pc = "rel_remove" /\ main'[c].pc # "rel_remove"}
           k == release_exit'.key
           absent_at_call == IF leaving = {} THEN k \notin edit_locks
                             ELSE \E c \in leaving : ~main[c].existed
       IN (release_exit' # release_exit \/ leaving # {}) =>
              /\ k \notin edit_locks'
              /\ edit_locks' \ {k} = edit_locks \ {k}
              /\ absent_at_call => (release_exit'.how = "absent" /\ edit_locks' = edit_locks)]_vars

\* C13 witness: a release found its key's lock file absent and ended without
\* error while the other key's lock file is in place.
C13_Witness ==
    /\ release_exit.how = "absent"
    /\ release_exit.key \notin edit_locks
    /\ edit_locks # {}
    /\ \A c \in Clients : main[c].pc = "idle"

\* ------------------------------------------------------------ SearchEngine
\* A string is a sequence of atoms.  An atom is a character or a run of
\* letters that the patterns never split ("user", "first_name", "Jane");
\* two letter atoms side by side spell one longer word.
Letters == {"user", "case", "docu", "foo", "first_name", "last_name", "name", "side", "path",
            "nb", "bogus", "Jane", "Doe", "x"}
Digits == {"1"}
\* \w of the patterns.
WordChars == Letters \cup Digits

\* Python's None where a string is expected; str(None) is "None".
None == <<"None">>

\* s[i], "" past the end.
At(s, i) == IF i \in 1..Len(s) THEN s[i] ELSE ""
\* s[a:b], positions counted from 1.
Slice(s, a, b) == SubSeq(s, a, b - 1)

\* [cls]* at i: the position after the longest run.
RECURSIVE run(_, _, _)
run(s, i, cls) == IF At(s, i) \in cls THEN run(s, i + 1, cls) ELSE i

\* \s? at i.
ws(s, i) == IF At(s, i) = " " THEN i + 1 ELSE i

\* [^']* at i.
RECURSIVE unquoted(_, _)
unquoted(s, i) == IF i \in 1..Len(s) /\ s[i] # "'" THEN unquoted(s, i + 1) ELSE i

\* '[^']*' at i, [^']* ending at j: the position after the closing quote, 0
\* for no match.
quoted_end(s, i, j) == IF At(s, i) = "'" /\ At(s, j) = "'" THEN j + 1 ELSE 0
quoted(s, i) == quoted_end(s, i, unquoted(s, i + 1))

\* (?:[cls]+\s?)+ continued at k, where the next run of cls ends at n.
RECURSIVE more_words(_, _, _, _)
more_words(s, k, n, cls) ==
    IF n = k THEN k ELSE more_words(s, ws(s, n), run(s, ws(s, n), cls), cls)

\* (?:[cls]+\s?)+ at i, the first run of cls ending at j: the position after
\* it, 0 for no match.
first_word(s, i, j, cls) ==
    IF j = i THEN 0 ELSE more_words(s, ws(s, j), run(s, ws(s, j), cls), cls)
words(s, i, cls) == first_word(s, i, run(s, i, cls), cls)

\* '[^']*'|(?:[cls]+\s?)+ at i, q the end of the first alternative.
quoted_or_words(q, s, i, cls) == IF q # 0 THEN q ELSE words(s, i, cls)
value(s, i, cls) == quoted_or_words(quoted(s, i), s, i, cls)

\* open [..] close at i, the inside (of at least least atoms) ending at j:
\* the position of close, 0 for no match.
enclosed(s, i, j, open, close, least) ==
    IF At(s, i) = open /\ j > i + least /\ At(s, j) = close THEN j ELSE 0

\* The position after an optional part that closed at j (0: absent) or was
\* skipped at i.
After(j, i) == IF j # 0 THEN j + 1 ELSE i

NoPrefix == [ok |-> FALSE, end |-> 0, table |-> None, returns |-> None, column |-> None, op |-> "None"]

\* (?:([a-zA-Z_]+)(?:\[((?:\w*\;?)*)])?(?:\{(\w+)})?([:=])\s?) at p, in the
\* order of its parts: group 1 ends at i1, group 2 closes at j2, group 3 at j3.
prefix_op(s, p, i1, j2, j3) ==
    IF i1 = p \/ At(s, After(j3, After(j2, i1))) \notin {":", "="} THEN NoPrefix
    ELSE [ok |-> TRUE, end |-> ws(s, After(j3, After(j2, i1)) + 1),
          table |-> Slice(s, p, i1),
          returns |-> IF j2 # 0 THEN Slice(s, i1 + 1, j2) ELSE None,
          column |-> IF j3 # 0 THEN Slice(s, After(j2, i1) + 1, j3) ELSE None,
          op |-> At(s, After(j3, After(j2, i1)))]
prefix_column(s, p, i1, j2) ==
    prefix_op(s, p, i1, j2,
              enclosed(s, After(j2, i1), run(s, After(j2, i1) + 1, WordChars), "{", "}", 1))
prefix_returns(s, p, i1) ==
    prefix_column(s, p, i1, enclosed(s, i1, run(s, i1 + 1, WordChars \cup {";"}), "[", "]", 0))
prefix(s, p) == prefix_returns(s, p, run(s, p, Letters))

\* \s?[|&]\s? at r: the position after it, 0 for no match.
trailing_sym(s, r) == IF At(s, ws(s, r)) \in {"|", "&"} THEN ws(s, ws(s, r) + 1) ELSE 0

\* \s?[|&]\s?{\w*}[:=]\s?(?:'[^']*'|(?:\w+\s?)+) at r, the combinator at i,
\* the brace at j and the column ending at k: the position after it, 0 for
\* no match.
subterm_value(s, i, j, k) ==
    IF At(s, i) \in {"|", "&"} /\ At(s, j) = "{" /\ At(s, k) = "}" /\ At(s, k + 1) \in {":", "="}
    THEN value(s, ws(s, k + 2), WordChars) ELSE 0
subterm_column(s, i, j) == subterm_value(s, i, j, run(s, j + 1, WordChars))
subterm(s, r) == subterm_column(s, ws(s, r), ws(s, ws(s, r) + 1))

\* The ends of the greedy run of sub-terms that starts at e, e first; n is
\* the end of the first of them, 0 when there is none.
RECURSIVE sub_ends(_, _, _)
sub_ends(s, e, n) == IF n = 0 THEN <<e>> ELSE <<e>> \o sub_ends(s, n, subterm(s, n))

\* (?:\s?[|&]\s?|$) after the k-th of ends (t: where the first alternative
\* ends there), giving back one sub-term at a time while neither alternative
\* matches; 0 when none is left.
RECURSIVE rest_end(_, _, _, _)
rest_end(s, ends, k, t) ==
    IF t # 0 THEN t
    ELSE IF ends[k] = Len(s) + 1 THEN ends[k]
    ELSE IF k = 1 THEN 0
    ELSE rest_end(s, ends, k - 1, trailing_sym(s, ends[k - 1]))

\* Groups 5 and 6 of _table_pattern at q: the end of the value and of the match.
rest_record(v, e) == [ok |-> e # 0, v |-> v, end |-> e]
rest_subs(s, v, ends) == rest_record(v, rest_end(s, ends, Len(ends), trailing_sym(s, ends[Len(ends)])))
rest_value(s, v) ==
    IF v = 0 THEN rest_record(0, 0) ELSE rest_subs(s, v, sub_ends(s, v, subterm(s, v)))
rest(s, q) == rest_value(s, value(s, q, WordChars \cup {"."}))

NoMatch == [ok |-> FALSE, start |-> 0, end |-> 0, main |-> <<>>, sub_string |-> <<>>]

\* _table_rejects matched at p: the span, groups 1-5 (main) and group 6;
\* first with the optional prefix, then without it.
match_plain(s, p, r0) ==
    IF r0.ok
    THEN [ok |-> TRUE, start |-> p, end |-> r0.end,
          main |-> [table |-> None, returns |-> None, column |-> None,
                    op |-> "None", term |-> Slice(s, p, r0.v)],
          sub_string |-> Slice(s, r0.v, r0.end)]
    ELSE NoMatch
match_prefixed(s, p, pr, r1) ==
    IF r1.ok
    THEN [ok |-> TRUE, start |-> p, end |-> r1.end,
          main |-> [table |-> pr.table, returns |-> pr.returns, column |-> pr.column,
                    op |-> pr.op, term |-> Slice(s, pr.end, r1.v)],
          sub_string |-> Slice(s, r1.v, r1.end)]
    ELSE match_plain(s, p, rest(s, p))
match_prefix(s, p, pr) ==
    IF pr.ok THEN match_prefixed(s, p, pr, rest(s, pr.end)) ELSE match_plain(s, p, rest(s, p))
table_match(s, p) == match_prefix(s, p, prefix(s, p))

\* _table_rejects.finditer(s) from p on (m: the match at p): the matches,
\* left to right, the search resuming one position further where nothing
\* matches.
RECURSIVE table_finditer(_, _, _)
table_finditer(s, p, m) ==
    IF p > Len(s) THEN <<>>
    ELSE IF m.ok THEN <<m>> \o table_finditer(s, m.end, table_match(s, m.end))
    ELSE table_finditer(s, p + 1, table_match(s, p + 1))

\* The check without the comparison of match.start() with last_end.
Consumed_last_only(s, matches) == matches[Len(matches)].end = Len(s) + 1

\* The loop of _check_consumed_string / _check_consumed_substring: every
\* match starts where the one before it ended, and the last ends the string.
Consumed(s, matches) ==
    /\ \A i \in 1..Len(matches) : matches[i].start = (IF i = 1 THEN 1 ELSE matches[i - 1].end)
    /\ matches[Len(matches)].end = Len(s) + 1

consumed_string(input_string, matches) ==
    [all_matches |-> [i \in 1..Len(matches) |-> Slice(input_string, matches[i].start, matches[i].end)],
     spans |-> [i \in 1..Len(matches) |-> <<matches[i].start, matches[i].end>>],
     entire_string_consumed |-> IF matches = <<>> THEN FALSE ELSE Consumed(input_string, matches)]
_check_consumed_string(input_string) ==
    consumed_string(input_string, table_finditer(input_string, 1, table_match(input_string, 1)))

\* ((?:[\w\.]+\s?|'[^']*')*) at i (a run of [\w.] ending at j, a quoted
\* part at q): the position after it.
RECURSIVE st_value(_, _, _, _)
st_value(s, i, j, q) ==
    IF j > i THEN st_value(s, ws(s, j), run(s, ws(s, j), WordChars \cup {"."}), quoted(s, ws(s, j)))
    ELSE IF q # 0 THEN st_value(s, q, run(s, q, WordChars \cup {"."}), quoted(s, q))
    ELSE i

NoTerm == [ok |-> FALSE, start |-> 0, end |-> 0, groups |-> <<>>]

\* _search_term_rejects matched at p, the combinator at i, the brace at j, the
\* column ending at k, the value from v0 to v1: the span and the five groups.
term_groups(s, p, i, j, k, v0, v1) ==
    [ok |-> TRUE, start |-> p, end |-> v1,
     groups |-> [operator |-> At(s, i), column |-> Slice(s, j + 1, k), regex_flag |-> At(s, k + 1),
                 value |-> Slice(s, v0, v1), table_flag |-> "None"]]
term_value(s, p, i, j, k, v0) ==
    term_groups(s, p, i, j, k, v0, st_value(s, v0, run(s, v0, WordChars \cup {"."}), quoted(s, v0)))
term_column(s, p, i, j, k) ==
    IF At(s, i) \notin {"|", "&"} THEN NoTerm
    ELSE IF At(s, j) = "{" /\ At(s, k) = "}" /\ At(s, k + 1) \in {":", "="}
    THEN term_value(s, p, i, j, k, ws(s, k + 2))
    ELSE [ok |-> TRUE, start |-> p, end |-> j,
          groups |-> [operator |-> "None", column |-> None, regex_flag |-> "None",
                      value |-> None, table_flag |-> At(s, i)]]
term_brace(s, p, i, j) == term_column(s, p, i, j, run(s, j + 1, WordChars))
term_match(s, p) == term_brace(s, p, ws(s, p), ws(s, ws(s, p) + 1))

RECURSIVE term_finditer(_, _, _)
term_finditer(s, p, m) ==
    IF p > Len(s) THEN <<>>
    ELSE IF m.ok THEN <<m>> \o term_finditer(s, m.end, term_match(s, m.end))
    ELSE term_finditer(s, p + 1, term_match(s, p + 1))

consumed_substring(input_string, matches) ==
    [all_matches |-> [i \in 1..Len(matches) |-> matches[i].groups],
     entire_string_consumed |-> IF matches = <<>> THEN input_string = <<>>
                                ELSE Consumed(input_string, matches)]
_check_consumed_substring(input_string) ==
    consumed_substring(input_string, term_finditer(input_string, 1, term_match(input_string, 1)))

\* len(sub_string) <= 3 and "|" in sub_string.
short_or(sub_string) == Len(sub_string) <= 3 /\ \E i \in 1..Len(sub_string) : sub_string[i] = "|"

\* One round of the loop of _parse_user_input, for the text of one match.
parse_terms(match, short, checked) ==
    [skipped |-> FALSE,
     failed |-> ~short /\ ~checked.entire_string_consumed,
     main |-> match.main,
     search_terms |-> IF short THEN <<>> ELSE checked.all_matches]
parse_match(match) ==
    IF ~match.ok THEN [skipped |-> TRUE, failed |-> FALSE, main |-> <<>>, search_terms |-> <<>>]
    ELSE parse_terms(match, short_or(match.sub_string), _check_consumed_substring(match.sub_string))
parse_clause(main_match) == parse_match(table_match(main_match, 1))

NoneParsed == [none |-> TRUE, clauses |-> <<>>]

NotSkipped(c) == ~c.skipped

parsed_results(kept) ==
    [none |-> FALSE,
     clauses |-> [i \in 1..Len(kept) |-> [main |-> kept[i].main, search_terms |-> kept[i].search_terms]]]
parse_rounds(rounds) ==
    IF \E i \in 1..Len(rounds) : rounds[i].failed THEN NoneParsed
    ELSE parsed_results(SelectSeq(rounds, NotSkipped))
parse_matches(checked) ==
    IF ~checked.entire_string_consumed THEN NoneParsed
    ELSE parse_rounds([i \in 1..Len(checked.all_matches) |-> parse_clause(checked.all_matches[i])])
_parse_user_input(input) == parse_matches(_check_consumed_string(input))

\* _map.get(group): the tables of a group, NoTables for None.
NoTables == <<>>
_map(group) ==
    CASE group = <<"user">> -> <<"Persons", "CasePeople">>
      [] group = <<"case">> -> <<"Cases">>
      [] group = <<"docu">> -> <<"Documents">>
      [] OTHER -> NoTables

\* _map.values(), in the order of the dict.
MapValues == <<_map(<<"user">>), _map(<<"case">>), _map(<<"docu">>)>>

\* _full_map[tables]: the searchable columns of each table of the group.
_full_map(tables) ==
    CASE tables = <<"Persons", "CasePeople">> ->
           <<<<"last_name", "first_name", "address", "birth_date", "contact_info", "gender", "description", "notes", "can_be_lawyer">>,
             <<"self_represented", "has_external_lawyer", "side">>>>
      [] tables = <<"Cases">> ->
           <<<<"name", "description", "notes">>>>
      [] tables = <<"Documents">> ->
           <<<<"name", "description", "notes", "path">>>>

\* _returns_map.get(tables, ()): the columns returned for a group; a column
\* name is a string of one atom.
_returns_map(tables) ==
    CASE tables = <<"Persons", "CasePeople">> -> <<<<"first_name">>, <<"last_name">>, <<"can_be_lawyer">>>>
      [] tables = <<"Cases">> -> <<<<"name">>>>
      [] tables = <<"Documents">> -> <<<<"name">>>>
      [] OTHER -> <<>>

\* SQL text is a sequence of tokens: words, "?" and punctuation marks.
\* _join_table_map[query_table][join_table], <<>> for a missing key.
_join_table_map(query_table, join_table) ==
    CASE query_table = "Cases" /\ join_table = "Persons" ->
           <<"INNER", "JOIN", "CasePeople", "ON", "Cases", ".", "nb", "=", "CasePeople", ".",
        "case_nb", "INNER", "JOIN", "Persons", "ON", "CasePeople", ".", "person_nb", "=",
        "Persons", ".", "nb">>
      [] query_table = "Cases" /\ join_table = "Documents" ->
           <<"INNER", "JOIN", "CaseDocuments", "ON", "Cases", ".", "nb", "=", "CaseDocuments",
        ".", "case_nb", "INNER", "JOIN", "Documents", "ON", "CaseDocuments", ".",
        "document_nb", "=", "Documents", ".", "nb">>
      [] query_table = "Persons" /\ join_table = "Cases" ->
           <<"INNER", "JOIN", "Cases", "ON", "CasePeople", ".", "case_nb", "=", "Cases", ".",
        "nb">>
      [] query_table = "Persons" /\ join_table = "Documents" ->
           <<"INNER", "JOIN", "CaseDocuments", "ON", "CasePeople", ".", "case_nb", "=",
        "CaseDocuments", ".", "case_nb", "JOIN", "Documents", "ON", "CaseDocuments", ".",
        "document_nb", "=", "Documents", ".", "nb">>
      [] query_table = "Documents" /\ join_table = "Cases" ->
           <<"INNER", "JOIN", "CaseDocuments", "ON", "Documents", ".", "nb", "=",
        "CaseDocuments", ".", "document_nb", "INNER", "JOIN", "Cases", "ON", "CaseDocuments",
        ".", "case_nb", "=", "Cases", ".", "nb">>
      [] query_table = "Documents" /\ join_table = "Persons" ->
           <<"INNER", "JOIN", "CaseDocuments", "ON", "Documents", ".", "nb", "=",
        "CaseDocuments", ".", "document_nb", "INNER", "JOIN", "CasePeople", "ON",
        "CaseDocuments", ".", "case_nb", "=", "CasePeople", ".", "case_nb", "JOIN", "Persons",
        "ON", "CasePeople", ".", "person_nb", "=", "Persons", ".", "nb">>
      [] OTHER -> <<>>

\* The query returned for the empty input.
SelectEverything ==
    <<"SELECT", "Persons", ".", "nb", ",", "Cases", ".", "nb", ",", "Documents", ".", "nb",
        "FROM", "Persons", "FULL", "OUTER", "JOIN", "Cases", "FULL", "OUTER", "JOIN",
        "Documents">>

\* str.strip() of a value: blanks are the only whitespace of the inputs.
RECURSIVE lstrip(_)
lstrip(v) == IF v # <<>> /\ Head(v) = " " THEN lstrip(Tail(v)) ELSE v
RECURSIVE rstrip(_)
rstrip(v) == IF v # <<>> /\ v[Len(v)] = " " THEN rstrip(SubSeq(v, 1, Len(v) - 1)) ELSE v
strip(v) == rstrip(lstrip(v))

\* tuple(text.split(";")), i the position of the first ";" (past the end
\* for none).
RECURSIVE split_at(_, _)
split_at(text, i) ==
    IF i > Len(text) THEN <<text>>
    ELSE <<Slice(text, 1, i)>>
             \o split_at(SubSeq(text, i + 1, Len(text)),
                         run(SubSeq(text, i + 1, Len(text)), 1, WordChars))
split(text) == split_at(text, run(text, 1, WordChars))

\* " ".join(parts) for token sequences.
RECURSIVE Flatten(_)
Flatten(parts) == IF parts = <<>> THEN <<>> ELSE Head(parts) \o Flatten(Tail(parts))

\* The greatest of a set of positions, 0 for the empty set; the least, 0
\* for the empty set.
Last(hits) == IF hits = {} THEN 0 ELSE CHOOSE i \in hits : \A j \in hits : j <= i
First(hits) == IF hits = {} THEN 0 ELSE CHOOSE i \in hits : \A j \in hits : i <= j

\* The table found by "for curr_table, columns in zip(...): if column in
\* columns: table = curr_table" (hit: its position), "" when no table
\* declares the column.
table_at(table_names, hit) == IF hit = 0 THEN "" ELSE table_names[hit]
declared_in(table_columns, column) ==
    {i \in 1..Len(table_columns) :
        Len(column) = 1 /\ \E j \in 1..Len(table_columns[i]) : table_columns[i][j] = column[1]}
found_table(table_names, column) ==
    table_at(table_names, Last(declared_in(_full_map(table_names), column)))

\* The condition with REGEXP whatever the operator of the term.
condition_always_regexp(table, column, regexp) ==
    (IF table = "" THEN <<>> ELSE <<table>>) \o <<".">> \o column \o <<"REGEXP", "?">>

\* f"{table}.{column} REGEXP ?" / f"{table}.{column} = ?".
condition(table, column, regexp) ==
    (IF table = "" THEN <<>> ELSE <<table>>) \o <<".">> \o column
        \o (IF regexp THEN <<"REGEXP", "?">> ELSE <<"=", "?">>)

\* f"{main_table.lower().removesuffix('s')}_nb".
nb_column(main_table) ==
    CASE main_table = "Persons" -> "person_nb"
      [] main_table = "Cases" -> "case_nb"
      [] main_table = "Documents" -> "document_nb"

\* The FROM clause with its LEFT JOINs, the same in both generators.
from_clause(table_names) ==
    <<"FROM", table_names[1]>> \o
    Flatten([i \in 1..(Len(table_names) - 1) |->
                <<"LEFT", "JOIN", table_names[i + 1], "ON", table_names[1], ".", "nb", "=",
                  table_names[i + 1], ".", nb_column(table_names[1])>>])

\* The search terms _generate_query reads: those before the first one with a
\* table flag (the loop breaks there).
RECURSIVE before_flag(_)
before_flag(search_terms) ==
    IF search_terms = <<>> \/ Head(search_terms).table_flag # "None" THEN <<>>
    ELSE <<Head(search_terms)>> \o before_flag(Tail(search_terms))

\* The combinator of a condition of _generate_query.
combinator(operator) ==
    CASE operator = "&" -> <<"AND">>
      [] operator = "|" -> <<"OR">>
      [] OTHER -> <<>>

\* _generate_query with table_names = self._map[input_tuple[0]] and the
\* terms its loop reads.
generate_query(input_tuple, table_names, terms) ==
    IF table_names = NoTables THEN [exc |-> "KeyError", sql |-> <<>>, params |-> <<>>]
    ELSE [exc |-> "",
          sql |-> <<"SELECT", table_names[1], ".", "nb">> \o from_clause(table_names) \o <<"WHERE">>
                     \o condition(found_table(table_names, input_tuple.column), input_tuple.column,
                                  input_tuple.op = ":")
                     \o Flatten([i \in 1..Len(terms) |->
                                    combinator(terms[i].operator)
                                    \o condition(found_table(table_names, terms[i].column),
                                                 terms[i].column, terms[i].regex_flag = ":")]),
          params |-> <<strip(input_tuple.term)>> \o [i \in 1..Len(terms) |-> strip(terms[i].value)]]
_generate_query(input_tuple, search_terms) ==
    generate_query(input_tuple, _map(input_tuple.table), before_flag(search_terms))

\* The dict normalized_extra: one item per column of the unflagged search
\* terms, placed where the column came first and holding what came last.
Unflagged(t) == t.table_flag = "None"
dict_item(column, t) ==
    [column |-> column, logic |-> IF t.operator = "|" THEN "OR" ELSE "AND",
     operator |-> t.regex_flag = ":", value |-> t.value]
last_with(terms, column) ==
    terms[Last({j \in 1..Len(terms) : terms[j].column = column})]
RECURSIVE dict_items(_, _)
dict_items(terms, i) ==
    IF i > Len(terms) THEN <<>>
    ELSE (IF \A j \in 1..(i - 1) : terms[j].column # terms[i].column
          THEN <<dict_item(terms[i].column, last_with(terms, terms[i].column))>> ELSE <<>>)
         \o dict_items(terms, i + 1)
normalized_extra(search_terms) == dict_items(SelectSeq(search_terms, Unflagged), 1)

\* n copies of v.
Copies(n, v) == [i \in 1..n |-> v]

\* (table, column) for every column, in the order of tables_and_columns.items().
table_map(table_names, table_columns) ==
    Flatten([i \in 1..Len(table_names) |->
                [j \in 1..Len(table_columns[i]) |-> <<table_names[i], table_columns[i][j]>>]])

\* _generate_full_query, columns the items of tables_and_columns.
full_query(table_names, columns, vague_search_term, additional_search_terms) ==
    [exc |-> "",
     sql |-> <<"SELECT", table_names[1], ".", "nb", ",", "NULL", "AS", "relevance", ",", "CASE">>
             \o Flatten([i \in 1..Len(columns) |->
                    <<"WHEN", columns[i][1], ".", columns[i][2], "=", "?", "THEN",
                      ToString(Len(columns) + 2 - (i - 1)),
                      "WHEN", columns[i][1], ".", columns[i][2], "REGEXP", "?", "THEN",
                      ToString(Len(columns) - (i - 1))>>])
             \o <<"ELSE", "0", "END", "AS", "relevance">>
             \o from_clause(table_names) \o <<"WHERE">>
             \o (IF additional_search_terms = <<>> THEN <<>> ELSE <<"(">>)
             \o Flatten([i \in 1..Len(columns) |->
                    (IF i = 1 THEN <<>> ELSE <<"OR">>) \o <<columns[i][1], ".", columns[i][2], "REGEXP", "?">>])
             \o (IF additional_search_terms = <<>> THEN <<>> ELSE <<")">>)
             \o Flatten([i \in 1..Len(additional_search_terms) |->
                    <<additional_search_terms[i].logic>>
                    \o condition(found_table(table_names, additional_search_terms[i].column),
                                 additional_search_terms[i].column, additional_search_terms[i].operator)])
             \o <<"ORDER", "BY", "relevance", "DESC">>,
     params |-> Copies((Len(columns) * 2) + Len(columns), <<".*">> \o vague_search_term \o <<".*">>)
                   \o [i \in 1..Len(additional_search_terms) |-> additional_search_terms[i].value]]
_generate_full_query(table_names, vague_search_term, additional_search_terms) ==
    full_query(table_names, table_map(table_names, _full_map(table_names)),
               vague_search_term, additional_search_terms)

\* The first position of the tokens pat in sql at or after from, 0 for none.
Find(sql, pat, from) ==
    First({i \in from..(Len(sql) - Len(pat) + 1) : SubSeq(sql, i, i + Len(pat) - 1) = pat})

\* _join_query step by step.  Lines 147-148: the conditions after WHERE (at
\* w), up to ORDER BY relevance (at order, 0: to the end), in parentheses
\* and followed by the join parameters.
isolate_to(joined, join_parameters, w, order) ==
    [exc |-> "",
     sql |-> SubSeq(joined, 1, w) \o <<"(">>
             \o Slice(joined, w + 1, IF order # 0 THEN order ELSE Len(joined) + 1) \o <<")">>
             \o Flatten(join_parameters)
             \o SubSeq(joined, IF order # 0 THEN order ELSE Len(joined) + 1, Len(joined))]
isolate(joined, join_parameters, w) ==
    IF w = 0 \/ w = Len(joined) THEN [exc |-> "", sql |-> joined]
    ELSE isolate_to(joined, join_parameters, w, Find(joined, <<"ORDER", "BY", "relevance">>, w + 2))
\* Lines 138-145: the JOIN before WHERE (at where), at the end without one.
insert_join(selected, join, where) ==
    IF where # 0 THEN Slice(selected, 1, where) \o join \o SubSeq(selected, where, Len(selected))
    ELSE selected \o join
join_where(selected, join, join_parameters) ==
    IF join = <<>> THEN [exc |-> "KeyError", sql |-> <<>>]
    ELSE isolate(insert_join(selected, join, Find(selected, <<"WHERE">>, 1)), join_parameters,
                 Find(insert_join(selected, join, Find(selected, <<"WHERE">>, 1)), <<"WHERE">>, 1))
\* Lines 126-132: <join_table>.nb before ", NULL AS relevance, CASE" (at
\* relevance_case), at the end without it.
insert_nb(select_clause, join_table, relevance_case) ==
    IF relevance_case # 0
    THEN Slice(select_clause, 1, relevance_case) \o <<",", join_table, ".", "nb">>
             \o SubSeq(select_clause, relevance_case, Len(select_clause))
    ELSE select_clause \o <<",", join_table, ".", "nb">>
new_select_clause(select_clause, join_table) ==
    insert_nb(select_clause, join_table,
              Find(select_clause, <<",", "NULL", "AS", "relevance", ",", "CASE">>, 1))
\* Lines 115-136: FROM at from, SELECT at select, its clause ending at select_end.
join_select(query, join_table, join_parameters, from, select, select_end) ==
    IF select_end = 0 THEN [exc |-> "ValueError", sql |-> <<>>]
    ELSE join_where(SubSeq(query, 1, select)
                        \o new_select_clause(Slice(query, select + 1, select_end), join_table)
                        \o SubSeq(query, select_end, Len(query)),
                    _join_table_map(query[from + 1], join_table), join_parameters)
join_from(query, join_table, join_parameters, from, select) ==
    IF from = 0 \/ from = Len(query) \/ select = 0 THEN [exc |-> "ValueError", sql |-> <<>>]
    ELSE join_select(query, join_table, join_parameters, from, select,
                     Find(query, <<"FROM">>, select + 2))
_join_query(query, join_table, join_parameters) ==
    join_from(query, join_table, join_parameters, Find(query, <<"FROM">>, 1), Find(query, <<"SELECT">>, 1))

\* One entry of the returned tuple: (tables, sql, params, return specs).
Entry(tables, query, rets) == [tables |-> tables, sql |-> query.sql, params |-> query.params, rets |-> rets]

\* Lines 313-317 and 320-324: the query of one clause over one group.
clause_query(main_groups, search_terms, table) ==
    IF main_groups.column = None
    THEN _generate_full_query(table, main_groups.term, normalized_extra(search_terms))
    ELSE _generate_query(main_groups, search_terms)

\* Lines 311-318: one entry per group for a clause whose group is not in _map.
fan_ret_val(main_groups, table) ==
    IF main_groups.returns # None /\ main_groups.returns # <<>>
    THEN split(main_groups.table) ELSE _returns_map(table)
fan_entries(main_groups, queries) ==
    [exc |-> queries[1].exc,
     returns |-> [i \in 1..Len(MapValues) |->
                     Entry(<<MapValues[i][1]>>, queries[i], <<fan_ret_val(main_groups, MapValues[i])>>)]]
fan_out(main_groups, search_terms) ==
    fan_entries(main_groups, [i \in 1..Len(MapValues) |-> clause_query(main_groups, search_terms, MapValues[i])])

\* Lines 329-346: the conditions and values the clause adds to the entry
\* before it.
where_conditions(table, terms) ==
    [i \in 1..Len(terms) |->
        <<IF terms[i].operator = "|" THEN "OR" ELSE "AND">>
        \o condition(found_table(table, terms[i].column), terms[i].column, terms[i].regex_flag # "None")]
where_tup(table, main_groups, search_terms) ==
    where_conditions(table,
        SelectSeq(<<[operator |-> "&", column |-> main_groups.column, regex_flag |-> main_groups.op,
                    value |-> main_groups.term, table_flag |-> "None"]>> \o search_terms, Unflagged))
values_of(terms) == [i \in 1..Len(terms) |-> terms[i].value]
value_tup_without_main(main_groups, search_terms) == values_of(SelectSeq(search_terms, Unflagged))
value_tup(main_groups, search_terms) == <<main_groups.term>> \o values_of(SelectSeq(search_terms, Unflagged))

\* last_term and ret_val of lines 303-304.
last_term(search_terms) ==
    IF Len(search_terms) > 0 THEN search_terms[Len(search_terms)].table_flag ELSE "None"
ret_val(main_groups, table) ==
    IF main_groups.returns # None THEN split(main_groups.returns) ELSE _returns_map(table)

\* The entry before with the clause joined to it, its return specs left as
\* they were.
merged_without_rets(last, table, joined, values) ==
    [tables |-> last.tables \o <<table[1]>>,
     sql |-> joined.sql,
     params |-> last.params \o values,
     rets |-> last.rets]

\* Lines 348-357: the entry before, with the clause joined to it.
merged(last, table, joined, values) ==
    [tables |-> last.tables \o <<table[1]>>,
     sql |-> joined.sql,
     params |-> last.params \o values,
     rets |-> last.rets \o <<_returns_map(table)>>]

\* The loop of lines 301-362 from the i-th clause on.
RECURSIVE clauses_loop(_, _, _, _)
after_fan_out(parsed_input, i, returns, concatenate_tables, search_terms, fanned) ==
    IF fanned.exc # "" THEN [exit |-> fanned.exc, returns |-> <<>>]
    ELSE clauses_loop(parsed_input, i + 1, returns \o fanned.returns,
                      concatenate_tables \/ last_term(search_terms) = "&")
after_join(parsed_input, i, returns, main_groups, search_terms, table, joined) ==
    IF joined.exc # "" THEN [exit |-> joined.exc, returns |-> <<>>]
    ELSE clauses_loop(parsed_input, i + 1,
                      SubSeq(returns, 1, Len(returns) - 1)
                          \o <<merged(returns[Len(returns)], table, joined, value_tup(main_groups, search_terms))>>,
                      last_term(search_terms) = "&")
clause_step(parsed_input, i, returns, concatenate_tables, main_groups, search_terms, table) ==
    IF table = NoTables
    THEN after_fan_out(parsed_input, i, returns, concatenate_tables, search_terms,
                       fan_out(main_groups, search_terms))
    ELSE IF concatenate_tables
    THEN after_join(parsed_input, i, returns, main_groups, search_terms, table,
                    _join_query(returns[Len(returns)].sql, table[1],
                                where_tup(table, main_groups, search_terms)))
    ELSE clauses_loop(parsed_input, i + 1,
                      returns \o <<Entry(<<table[1]>>, clause_query(main_groups, search_terms, table),
                                         <<ret_val(main_groups, table)>>)>>,
                      last_term(search_terms) = "&")
clauses_loop(parsed_input, i, returns, concatenate_tables) ==
    IF i > Len(parsed_input) THEN [exit |-> "returned", returns |-> returns]
    ELSE clause_step(parsed_input, i, returns, concatenate_tables, parsed_input[i].main,
                     parsed_input[i].search_terms, _map(parsed_input[i].main.table))

\* Lines 283-298 and the loop, parsed_input what _parse_user_input returned.
compiled(input, parsed_input) ==
    IF parsed_input.none
    THEN IF input = <<>>
         THEN [exit |-> "returned",
               returns |-> <<[tables |-> <<"Persons", "Cases", "Documents">>,
                              sql |-> SelectEverything,
                              params |-> <<>>,
                              rets |-> <<_returns_map(<<"Persons", "CasePeople">>),
                                         _returns_map(<<"Cases">>),
                                         _returns_map(<<"Documents">>)>>]>>]
         ELSE [exit |-> "returned",
               returns |-> <<[tables |-> <<"Persons", "Cases", "Documents">>,
                              sql |-> <<>>,
                              params |-> <<>>,
                              rets |-> <<<<>>, <<>>, <<>>>>]>>]
    ELSE clauses_loop(parsed_input.clauses, 1, <<>>, FALSE)
get_sql_query_from_user_input(input) == compiled(input, _parse_user_input(input))

\* get_sql_query_from_user_input_restricted.  The triple returned for what
\* the method rejects (lines 374, 376 and 391).
EmptyQuery == [exit |-> "returned", sql |-> <<>>, params |-> <<>>, rets |-> <<>>]
\* Lines 380-389: the query of the one clause, over the tables of the bound
\* group.
restricted_query(query, rets) ==
    [exit |-> IF query.exc # "" THEN query.exc ELSE "returned",
     sql |-> query.sql, params |-> query.params, rets |-> rets]
\* Lines 378-391, clause_table what self._map[main[0]] gives (a KeyError for
\* a group outside _map).
restricted_clause(main_groups, search_terms, table, clause_table) ==
    IF main_groups.table # None /\ clause_table = NoTables THEN
        [exit |-> "KeyError", sql |-> <<>>, params |-> <<>>, rets |-> <<>>]
    ELSE IF main_groups.table = None \/ clause_table = table THEN
        restricted_query(clause_query(main_groups, search_terms, table), ret_val(main_groups, table))
    ELSE EmptyQuery
\* The restricted compiler without the case of the empty string: whatever
\* does not parse is rejected.
restricted_compiled_no_sentinel(input, parsed_input, table) ==
    IF parsed_input.none THEN EmptyQuery
    ELSE IF Len(parsed_input.clauses) > 1 THEN EmptyQuery
    ELSE restricted_clause(parsed_input.clauses[1].main, parsed_input.clauses[1].search_terms,
                           table, _map(parsed_input.clauses[1].main.table))

\* Lines 371-376.
restricted_compiled(input, parsed_input, table) ==
    IF parsed_input.none
    THEN IF input = <<>>
         THEN [exit |-> "returned", sql |-> <<"SELECT", "nb", "FROM", table[1]>>, params |-> <<>>,
               rets |-> _returns_map(table)]
         ELSE EmptyQuery
    ELSE IF Len(parsed_input.clauses) > 1 THEN EmptyQuery
    ELSE restricted_clause(parsed_input.clauses[1].main, parsed_input.clauses[1].search_terms,
                           table, _map(parsed_input.clauses[1].main.table))
get_sql_query_from_user_input_restricted(input, group) ==
    restricted_compiled(input, _parse_user_input(input), _map(group))

\* ------------------------------------------------- calls of the SearchEngine
\* Strings of at most n atoms of S.
Strings(S, n) == UNION {[1..m -> S] : m \in 0..n}

\* The atoms of the inputs handed to _parse_user_input alone.
ParseAlphabet == {"Jane", " ", "&", "|", "{", "}", ":", "'", "!"}
ParseInputs == Strings(ParseAlphabet, MaxInputLen)

\* The queries compiled: clauses as the grammar of the query language spells
\* them, group{column}op term, sub-terms, and a bare trailing combinator.
GroupNames == {<<"user">>, <<"case">>, <<"docu">>, <<"foo">>}
ColumnNames == {<<"first_name">>, <<"name">>, <<"side">>}
SubColumns == {<<"last_name">>, <<"name">>}
\* The value of the i-th sub-term of a clause.
SubValue(i) == IF i % 2 = 1 THEN <<"Doe">> ELSE <<"x">>

SubTermLists(n) ==
    UNION {{[i \in 1..m |-> [operator |-> f[i][1], column |-> f[i][2], regex_flag |-> f[i][3],
                             value |-> SubValue(i)]] :
               f \in [1..m -> {"&", "|"} \X SubColumns \X {":", "="}]} : m \in 0..n}

\* The part of a clause before its sub-terms.
Heads(columns) ==
    {[table |-> None, column |-> None, op |-> "None", term |-> <<"Jane">>]}
    \cup {[table |-> g, column |-> c, op |-> o, term |-> <<"Jane">>] :
              g \in GroupNames, c \in columns \cup {None}, o \in {":", "="}}

Clause(head, subs, sep) ==
    [table |-> head.table, column |-> head.column, op |-> head.op, term |-> head.term,
     search_terms |-> subs, sep |-> sep]

\* One clause with any sub-terms, with or without blanks around the combinators.
SingleQueries ==
    {[clauses |-> <<Clause(h, subs, sep)>>, spaced |-> b] :
        h \in Heads(ColumnNames), subs \in SubTermLists(MaxSubTerms), sep \in {"", "&"}, b \in BOOLEAN}

\* The column a clause of a chain names, when it names one.
ChainColumn(g) ==
    CASE g = <<"user">> -> <<"first_name">>
      [] g = <<"docu">> -> <<"path">>
      [] OTHER -> <<"name">>

ChainHeads ==
    {h \in Heads({<<"first_name">>, <<"path">>, <<"name">>}) :
        /\ h.table # <<"foo">>
        /\ h.column \in {None, ChainColumn(h.table)}}

\* Two clauses, the second with at most one sub-term, joined by & or |.
PairQueries ==
    {[clauses |-> <<Clause(h1, <<>>, sep), Clause(h2, subs, "")>>, spaced |-> FALSE] :
        h1 \in ChainHeads, h2 \in ChainHeads, subs \in SubTermLists(1), sep \in {"&", "|"}}

\* Chains of three and more clauses joined by &.
ChainQueries ==
    UNION {{[clauses |-> [i \in 1..n |-> Clause(f[i], <<>>, IF i < n THEN "&" ELSE "")], spaced |-> FALSE] :
               f \in [1..n -> ChainHeads]} : n \in 3..MaxClauses}

Queries == SingleQueries \cup PairQueries \cup ChainQueries

\* The text of a combinator, with blanks around it in a spaced query.
Combinator(c, spaced) == IF spaced THEN <<" ", c, " ">> ELSE <<c>>

RenderClause(clause, spaced) ==
    (IF clause.table = None THEN <<>>
     ELSE clause.table \o (IF clause.column = None THEN <<>> ELSE <<"{">> \o clause.column \o <<"}">>)
              \o <<clause.op>>)
    \o clause.term
    \o Flatten([i \in 1..Len(clause.search_terms) |->
                   Combinator(clause.search_terms[i].operator, spaced)
                   \o <<"{">> \o clause.search_terms[i].column \o <<"}", clause.search_terms[i].regex_flag>>
                   \o clause.search_terms[i].value])
    \o (IF clause.sep = "" THEN <<>> ELSE Combinator(clause.sep, spaced))

\* The string a query is typed as.
RenderQuery(query) == Flatten([i \in 1..Len(query.clauses) |-> RenderClause(query.clauses[i], query.spaced)])

\* One call of _parse_user_input on a fresh SearchEngine (the engine keeps
\* no state between calls).
parse_call(input) ==
    /\ search_op' = "_parse_user_input"
    /\ user_input' = input
    /\ written' = <<>>
    /\ parsed' = _parse_user_input(input)
    /\ UNCHANGED <<search_exit, search_result, restricted_table>>
    /\ UNCHANGED <<lockVars, changes_log, log_exists, notifierVars, editVars, retryVars, attrVars>>

\* One call of get_sql_query_from_user_input on a fresh SearchEngine.
search_returned(clauses, input, result) ==
    /\ search_op' = "get_sql_query_from_user_input"
    /\ user_input' = input
    /\ written' = clauses
    /\ parsed' = _parse_user_input(input)
    /\ search_exit' = result.exit
    /\ search_result' = result.returns
    /\ UNCHANGED restricted_table
    /\ UNCHANGED <<lockVars, changes_log, log_exists, notifierVars, editVars, retryVars, attrVars>>
search_input(clauses, input) == search_returned(clauses, input, get_sql_query_from_user_input(input))
search_call(query) == search_input(query.clauses, RenderQuery(query))

\* The strings compiled as they are: the empty string, strings the clause
\* grammar does not tile, and bare terms.
RawInputs == Strings(ParseAlphabet, MaxRawLen)
raw_call(input) == search_input(<<>>, input)

NextSearch ==
    /\ search_op = "none"
    /\ \/ \E input \in ParseInputs : parse_call(input)
       \/ \E query \in Queries : search_call(query)
       \/ \E input \in RawInputs : raw_call(input)

SpecSearch == Init /\ [][NextSearch]_vars

\* The groups a restricted call is bound to, and the queries compiled by it:
\* one clause with at most one sub-term, and pairs of clauses.
RestrictedTables == {<<"user">>, <<"case">>, <<"docu">>}
RestrictedQueries ==
    {[clauses |-> <<Clause(h, subs, sep)>>, spaced |-> FALSE] :
        h \in Heads(ColumnNames), subs \in SubTermLists(1), sep \in {"", "&"}}
    \cup {[clauses |-> <<Clause(h1, <<>>, sep), Clause(h2, <<>>, "")>>, spaced |-> FALSE] :
             h1 \in ChainHeads, h2 \in ChainHeads, sep \in {"&", "|"}}

\* One call of get_sql_query_from_user_input_restricted on a fresh SearchEngine.
restricted_returned(clauses, input, group, result) ==
    /\ search_op' = "get_sql_query_from_user_input_restricted"
    /\ user_input' = input
    /\ written' = clauses
    /\ parsed' = _parse_user_input(input)
    /\ search_exit' = result.exit
    /\ search_result' = <<[sql |-> result.sql, params |-> result.params, rets |-> result.rets]>>
    /\ restricted_table' = group
    /\ UNCHANGED <<lockVars, changes_log, log_exists, notifierVars, editVars, retryVars, attrVars>>
restricted_input(clauses, input, group) ==
    restricted_returned(clauses, input, group, get_sql_query_from_user_input_restricted(input, group))
restricted_call(query, group) == restricted_input(query.clauses, RenderQuery(query), group)
restricted_raw_call(input, group) == restricted_input(<<>>, input, group)

\* Calls of both compilers: the restricted one bound to each group, and the
\* unrestricted one on the same queries and on the chains of ChainQueries.
NextCompile ==
    /\ search_op = "none"
    /\ \/ \E input \in RawInputs : raw_call(input)
       \/ \E query \in RestrictedQueries \cup ChainQueries : search_call(query)
       \/ \E query \in RestrictedQueries, group \in RestrictedTables : restricted_call(query, group)
       \/ \E input \in RawInputs, group \in RestrictedTables : restricted_raw_call(input, group)

SpecCompile == Init /\ [][NextCompile]_vars

\* ----------------------------------------------------- search properties
\* The positions of s that none of the spans covers.
Uncovered(s, spans) ==
    {i \in 1..Len(s) : \A k \in 1..Len(spans) : ~(spans[k][1] <= i /\ i < spans[k][2])}
\* The positions of s that no match of the clause grammar covers.
Unmatched(s) == Uncovered(s, _check_consumed_string(s).spans)

\* The matches of the clause grammar whose sub-term section the sub-term
\* grammar does not consume.
Unconsumed(all_matches) ==
    {k \in 1..Len(all_matches) :
        ~_check_consumed_substring(table_match(all_matches[k], 1).sub_string).entire_string_consumed}
UnconsumedSections(s) == Unconsumed(_check_consumed_string(s).all_matches)

\* C15: _parse_user_input returns a parse result only when the matches of the
\* clause grammar cover the whole input from its first position to its end
\* with no gap; for every input with an unmatched part, and for every input
\* with a clause whose sub-term section is not fully consumed, it returns None.
C15_ParseOnlyWhenTiled ==
    search_op # "none" =>
        /\ ~parsed.none => (user_input # <<>> /\ Unmatched(user_input) = {})
        /\ Unmatched(user_input) # {} => parsed.none
        /\ UnconsumedSections(user_input) # {} => parsed.none

\* An input with a match before and a match after an unmatched part was
\* parsed, and None came back.
GapBetween(s, spans) ==
    \E i \in Uncovered(s, spans) :
        /\ \E k \in 1..Len(spans) : spans[k][2] <= i
        /\ \E k \in 1..Len(spans) : spans[k][1] > i
C15_Witness ==
    /\ search_op = "_parse_user_input"
    /\ parsed.none
    /\ GapBetween(user_input, _check_consumed_string(user_input).spans)

\* The clauses of the compiled query that name a group outside _map.
UnknownGroupClauses ==
    {i \in 1..Len(written) : written[i].table # None /\ _map(written[i].table) = NoTables}

\* The call compiled nothing: it raised, or returned no query text at all.
Rejected ==
    \/ search_exit # "returned"
    \/ \A e \in 1..Len(search_result) : search_result[e].sql = <<>>

\* C16: a query that names a group other than user, case or docu is rejected
\* by get_sql_query_from_user_input, with a {column} and without one; it never
\* compiles into a query over the known groups.
C16_UnknownGroupRejected ==
    (search_op = "get_sql_query_from_user_input" /\ UnknownGroupClauses # {}) => Rejected

\* The number of searchable columns of a group, all its tables together.
RECURSIVE SumLen(_)
SumLen(seqs) == IF seqs = <<>> THEN 0 ELSE Len(Head(seqs)) + SumLen(Tail(seqs))
SearchableColumns(group) == SumLen(_full_map(_map(group)))

\* The parameters the claim gives a vague clause: 3N copies of ".*<term>.*",
\* then the values of the sub-terms as written.
VagueParams(clause) ==
    Copies(3 * SearchableColumns(clause.table), <<".*">> \o clause.term \o <<".*">>)
    \o [i \in 1..Len(clause.search_terms) |-> clause.search_terms[i].value]

\* One clause over a known group without {column} was compiled.
VagueClauseCompiled ==
    /\ search_op = "get_sql_query_from_user_input"
    /\ Len(written) = 1
    /\ written[1].column = None
    /\ _map(written[1].table) # NoTables

\* C17: for a clause without {column} over a group with N searchable columns,
\* the compiled parameter list is exactly 3N copies of ".*<term>.*" followed
\* by one value per explicit sub-term, in the order the sub-terms were
\* written, for any list of sub-terms.
C17_VagueParams ==
    VagueClauseCompiled =>
        /\ search_exit = "returned"
        /\ Len(search_result) = 1
        /\ search_result[1].params = VagueParams(written[1])

\* The tables of a group that declare a column in _full_map.
DeclaringTables(group, column) ==
    {_map(group)[i] : i \in declared_in(_full_map(_map(group)), column)}

\* "<table>.<column> = ?" for "=", "<table>.<column> REGEXP ?" for ":", with
\* the table of the group that declares the column.
ExactCondition(group, column, operator) ==
    <<CHOOSE tbl \in DeclaringTables(group, column) : TRUE, ".">> \o column
        \o (IF operator = "=" THEN <<"=", "?">> ELSE <<"REGEXP", "?">>)

\* The WHERE clause and the parameters the claim gives a clause with {column}.
ExactWhere(clause) ==
    ExactCondition(clause.table, clause.column, clause.op)
    \o Flatten([i \in 1..Len(clause.search_terms) |->
                   <<IF clause.search_terms[i].operator = "&" THEN "AND" ELSE "OR">>
                   \o ExactCondition(clause.table, clause.search_terms[i].column,
                                     clause.search_terms[i].regex_flag)])
ExactParams(clause) ==
    <<clause.term>> \o [i \in 1..Len(clause.search_terms) |-> clause.search_terms[i].value]

\* The text of a query after its WHERE.
AfterWhere(sql) == SubSeq(sql, Find(sql, <<"WHERE">>, 1) + 1, Len(sql))

\* One clause group{column}op value was compiled, the group known and every
\* column it names declared by a table of the group.
ExactClauseCompiled ==
    /\ search_op = "get_sql_query_from_user_input"
    /\ Len(written) = 1
    /\ _map(written[1].table) # NoTables
    /\ written[1].column # None
    /\ DeclaringTables(written[1].table, written[1].column) # {}
    /\ \A i \in 1..Len(written[1].search_terms) :
          DeclaringTables(written[1].table, written[1].search_terms[i].column) # {}

\* C18: for a clause group{column}op value with sub-terms, the WHERE clause
\* holds "<table>.<column> = ?" for "=" and "<table>.<column> REGEXP ?" for
\* ":", <table> being the table of the group that declares the column,
\* followed by one AND/OR condition per sub-term from left to right; the
\* params are the clause value followed by the sub-term values in that order.
C18_ExactWhere ==
    ExactClauseCompiled =>
        /\ search_exit = "returned"
        /\ Len(search_result) = 1
        /\ AfterWhere(search_result[1].sql) = ExactWhere(written[1])
        /\ search_result[1].params = ExactParams(written[1])

\* A clause with "=" over a column of the group's second table, followed by
\* an & and an | sub-term typed with blanks, was compiled.
C18_Witness ==
    /\ ExactClauseCompiled
    /\ written[1].op = "="
    /\ DeclaringTables(written[1].table, written[1].column) = {"CasePeople"}
    /\ Len(written[1].search_terms) = 2
    /\ written[1].search_terms[1].operator = "&"
    /\ written[1].search_terms[2].operator = "|"
    /\ written[1].search_terms[2].regex_flag = "="
    /\ \E i \in 1..Len(user_input) : user_input[i] = " "

\* The text of a query after its WHERE, up to ORDER BY relevance.
WhereUpTo(sql, w, order) == Slice(sql, w + 1, IF order # 0 THEN order ELSE Len(sql) + 1)
WhereFrom(sql, w) == WhereUpTo(sql, w, Find(sql, <<"ORDER", "BY", "relevance">>, w + 1))
WhereOf(sql) == WhereFrom(sql, Find(sql, <<"WHERE">>, 1))

\* The entry the first clause of the compiled query gives when it is compiled
\* alone.
FirstAlone == get_sql_query_from_user_input(RenderClause(written[1], FALSE)).returns[1]

\* <table>.nb stands in the SELECT list of the query.
NbSelected(sql, table, nb, from) == nb # 0 /\ from # 0 /\ nb < from
\* The predefined join of the pair stands in the query before its WHERE.
JoinInserted(sql, join, w) == join # <<>> /\ Find(sql, join, 1) # 0 /\ Find(sql, join, 1) < w

\* Two clauses were compiled, the first over a known group and ending with a
\* bare &, the second over a different known group with {column}, every
\* column the second names declared by a table of its group.
ChainedPairCompiled ==
    /\ search_op = "get_sql_query_from_user_input"
    /\ Len(written) = 2
    /\ written[1].sep = "&"
    /\ _map(written[1].table) # NoTables
    /\ _map(written[2].table) # NoTables
    /\ written[1].table # written[2].table
    /\ written[2].column # None
    /\ DeclaringTables(written[2].table, written[2].column) # {}
    /\ \A i \in 1..Len(written[2].search_terms) :
          DeclaringTables(written[2].table, written[2].search_terms[i].column) # {}

\* The entry is the entry of the first clause alone with the second clause
\* merged into it as the claim says.
MergedAsClaimed(entry, alone, first_table, second_table, second) ==
    /\ entry.tables = <<first_table, second_table>>
    /\ NbSelected(entry.sql, second_table, Find(entry.sql, <<",", second_table, ".", "nb">>, 1),
                  Find(entry.sql, <<"FROM">>, 1))
    /\ JoinInserted(entry.sql, _join_table_map(first_table, second_table),
                    Find(entry.sql, <<"WHERE">>, 1))
    /\ WhereOf(entry.sql) = <<"(">> \o WhereOf(alone.sql) \o <<")", "AND">> \o ExactWhere(second)
    /\ entry.params = alone.params \o ExactParams(second)

\* C19: when a clause ends with a bare trailing & and the next clause names a
\* different group, one merged entry is returned: its group list is the first
\* group's table followed by the second's, the second table's nb is in the
\* SELECT list, the predefined join of the pair is inserted, the WHERE of the
\* first clause stands in parentheses with the conditions of the second
\* clause after it, and the values of the second clause end the params.
C19_ChainMerged ==
    ChainedPairCompiled =>
        /\ search_exit = "returned"
        /\ Len(search_result) = 1
        /\ MergedAsClaimed(search_result[1], FirstAlone, _map(written[1].table)[1],
                           _map(written[2].table)[1], written[2])

\* C20: every entry get_sql_query_from_user_input returns, for a single
\* clause, a fan-out, a merged chain of any length, the empty input and an
\* input that does not parse, names as many groups as it has return specs.
C20_GroupsMatchReturns ==
    (search_op = "get_sql_query_from_user_input" /\ search_exit = "returned") =>
        \A e \in 1..Len(search_result) :
            Len(search_result[e].tables) = Len(search_result[e].rets)

\* A chain of three clauses over three groups was merged into one entry.
C20_Witness ==
    /\ search_op = "get_sql_query_from_user_input"
    /\ search_exit = "returned"
    /\ Len(written) = 3
    /\ Len(search_result) = 1
    /\ Len(search_result[1].tables) = 3
    /\ Len(search_result[1].rets) = 3

\* --------------------------------------- DatabaseAccess.search over a store
\* What cursor.execute(sql, params) and fetchall() give in _query: sqlite3
\* runs the empty statement and returns no rows; any other statement returns
\* no row, one row or two, or fails with an OperationalError (the store's
\* content and the validity of the text are left open).
Outcomes == {"no rows", "one row", "two rows", "OperationalError"}
QueryOutcomes(sql) == IF sql = <<>> THEN {"no rows"} ELSE Outcomes
\* set(transposed_results[i]) for the rows of an outcome: every column of the
\* k-th row holds k.
Values(outcome) ==
    CASE outcome = "one row" -> {1}
      [] outcome = "two rows" -> {1, 2}
      [] OTHER -> {}
\* The number of columns a row of the query has: the commas of its SELECT
\* list and one.
SelectWidth(sql, from) == Cardinality({i \in 1..from : sql[i] = ","}) + 1

\* Lines 519-523 from the i-th pair of zip(tables, all_ret_vals) on: an
\* IndexError for a group past the last column of the rows.
RECURSIVE search_groups(_, _, _, _)
search_groups(entry, inter, width, i) ==
    IF i > Len(entry.tables) \/ i > Len(entry.rets) THEN [exc |-> "", returns |-> <<>>]
    ELSE IF entry.tables[i] = "Documents" THEN search_groups(entry, inter, width, i + 1)
    ELSE IF i > width THEN [exc |-> "IndexError", returns |-> <<>>]
    ELSE [exc |-> search_groups(entry, inter, width, i + 1).exc,
          returns |-> <<[table |-> entry.tables[i], inter |-> inter, ret_vals |-> entry.rets[i]]>>
                      \o search_groups(entry, inter, width, i + 1).returns]

\* The entry's groups with no test of "if not results".
search_entry_no_skip(entry, outcome) ==
    IF outcome = "OperationalError" THEN [exc |-> "OperationalError", returns |-> <<>>]
    ELSE search_groups(entry, Values(outcome),
                       IF outcome = "no rows" THEN 0
                       ELSE SelectWidth(entry.sql, Find(entry.sql, <<"FROM">>, 1)), 1)

\* Lines 512-523: what one entry of the compiled tuple adds to returns.
search_entry(entry, outcome) ==
    IF outcome = "OperationalError" THEN [exc |-> "OperationalError", returns |-> <<>>]
    ELSE IF outcome = "no rows" THEN [exc |-> "", returns |-> <<>>]
    ELSE search_groups(entry, Values(outcome), SelectWidth(entry.sql, Find(entry.sql, <<"FROM">>, 1)), 1)

\* The loop of lines 511-523 from the e-th entry on, found what the entries
\* before it added.
RECURSIVE search_entries(_, _, _, _)
search_added(entries, outcomes, e, found, added) ==
    IF added.exc # "" THEN [exit |-> added.exc, returns |-> <<>>]
    ELSE search_entries(entries, outcomes, e + 1, found \o added.returns)
search_entries(entries, outcomes, e, found) ==
    IF e > Len(entries) THEN [exit |-> "returned", returns |-> found]
    ELSE search_added(entries, outcomes, e, found, search_entry(entries[e], outcomes[e]))
search_compiled(result, outcomes) ==
    IF result.exit # "returned" THEN [exit |-> result.exit, returns |-> <<>>]
    ELSE search_entries(result.returns, outcomes, 1, <<>>)

\* Lines 527-533: restricted_search on the triple the restricted compiler
\* returned.
restricted_search_compiled(result, outcome) ==
    IF result.exit # "returned" THEN [exit |-> result.exit, returns |-> <<>>]
    ELSE IF outcome = "OperationalError" THEN [exit |-> "OperationalError", returns |-> <<>>]
    ELSE IF outcome = "no rows" THEN [exit |-> "returned", returns |-> <<[nbs |-> {}, ret_vals |-> <<>>]>>]
    ELSE [exit |-> "returned", returns |-> <<[nbs |-> Values(outcome), ret_vals |-> result.rets]>>]

\* The outcomes of the statements of a compiled tuple, one per entry.
EntryOutcomes(result) ==
    {f \in [1..Len(result.returns) -> Outcomes] :
        \A e \in 1..Len(result.returns) : f[e] \in QueryOutcomes(result.returns[e].sql)}

\* One call of DatabaseAccess.search by a process alone, the write lock free
\* (_query takes and releases it around each statement).
search_done(input, group, name, done) ==
    /\ write_lock = FALSE
    /\ search_op' = name
    /\ user_input' = input
    /\ written' = <<>>
    /\ parsed' = _parse_user_input(input)
    /\ search_exit' = done.exit
    /\ search_result' = done.returns
    /\ restricted_table' = group
    /\ UNCHANGED <<lockVars, changes_log, log_exists, notifierVars, editVars, retryVars, attrVars>>
search_with(input, result) ==
    \E outcomes \in EntryOutcomes(result) :
        search_done(input, None, "search", search_compiled(result, outcomes))
search(input) == search_with(input, get_sql_query_from_user_input(input))

\* One call of DatabaseAccess.restricted_search.
restricted_search_with(input, group, result) ==
    \E outcome \in QueryOutcomes(result.sql) :
        search_done(input, group, "restricted_search", restricted_search_compiled(result, outcome))
restricted_search(input, group) ==
    restricted_search_with(input, group, get_sql_query_from_user_input_restricted(input, group))

\* The strings searched for: those of RawInputs and the queries of
\* RestrictedQueries as typed.
SearchInputs == RawInputs \cup {RenderQuery(q) : q \in RestrictedQueries}

NextFacadeSearch ==
    /\ search_op = "none"
    /\ \/ \E input \in SearchInputs : search(input)
       \/ \E input \in SearchInputs, group \in RestrictedTables : restricted_search(input, group)

SpecFacadeSearch == Init /\ [][NextFacadeSearch]_vars

\* ------------------------------------------------- restricted properties
\* C21: the empty query string compiles to the "select everything" form:
\* get_sql_query_from_user_input returns one entry over Persons, Cases and
\* Documents with no parameters and the three default return specs, and the
\* restricted variant returns "SELECT nb FROM <bound table>" with no
\* parameters and the default return spec of the bound group.
C21_EmptySelectsEverything ==
    /\ (search_op = "get_sql_query_from_user_input" /\ user_input = <<>>) =>
          /\ search_exit = "returned"
          /\ Len(search_result) = 1
          /\ search_result[1].tables = <<"Persons", "Cases", "Documents">>
          /\ search_result[1].sql = SelectEverything
          /\ search_result[1].params = <<>>
          /\ search_result[1].rets = <<_returns_map(_map(<<"user">>)), _returns_map(_map(<<"case">>)),
                                       _returns_map(_map(<<"docu">>))>>
    /\ (search_op = "get_sql_query_from_user_input_restricted" /\ user_input = <<>>) =>
          /\ search_exit = "returned"
          /\ search_result[1].sql = <<"SELECT", "nb", "FROM", _map(restricted_table)[1]>>
          /\ search_result[1].params = <<>>
          /\ search_result[1].rets = _returns_map(_map(restricted_table))

\* The restricted variant compiled the empty string for the group docu.
C21_Witness ==
    /\ search_op = "get_sql_query_from_user_input_restricted"
    /\ user_input = <<>>
    /\ restricted_table = <<"docu">>
    /\ search_result[1].sql = <<"SELECT", "nb", "FROM", "Documents">>

\* The restricted call returned the empty query with no params and no
\* return spec.
ReturnedEmpty ==
    /\ search_exit = "returned"
    /\ search_result[1] = [sql |-> <<>>, params |-> <<>>, rets |-> <<>>]

\* The table names of the schema, and those a query text names.
TableNames == {"Persons", "CasePeople", "Cases", "CaseDocuments", "Documents"}
TablesIn(sql) == {sql[i] : i \in 1..Len(sql)} \cap TableNames

\* The restricted call returned one query over tables of the bound group only.
ReturnedScoped(tables) ==
    /\ search_exit = "returned"
    /\ search_result[1].sql # <<>>
    /\ TablesIn(search_result[1].sql) # {}
    /\ TablesIn(search_result[1].sql) \subseteq {tables[i] : i \in 1..Len(tables)}

\* C22: the restricted compiler returns the empty query with no params and
\* no return spec for every input that parses into more than one top-level
\* clause and for every input whose clause names a group other than the
\* bound group; an accepted input yields one query over the bound group only.
C22_RestrictedRejects ==
    (search_op = "get_sql_query_from_user_input_restricted" /\ ~parsed.none) =>
        /\ Len(parsed.clauses) > 1 => ReturnedEmpty
        /\ (Len(parsed.clauses) = 1 /\ parsed.clauses[1].main.table \notin {None, restricted_table})
              => ReturnedEmpty
        /\ (Len(parsed.clauses) = 1 /\ parsed.clauses[1].main.table \in {None, restricted_table})
              => ReturnedScoped(_map(restricted_table))

\* C23: for every non-empty input that fails to parse, search returns zero
\* results for every group and restricted_search returns the empty result,
\* and neither raises an error.
C23_ParseFailureNoResults ==
    (search_op \in {"search", "restricted_search"} /\ user_input # <<>> /\ parsed.none) =>
        /\ search_exit = "returned"
        /\ search_op = "search" => search_result = <<>>
        /\ search_op = "restricted_search" => search_result = <<[nbs |-> {}, ret_vals |-> <<>>]>>

\* search was called with an unbalanced brace and returned no result.
C23_Witness ==
    /\ search_op = "search"
    /\ user_input = <<"Jane", "{">>
    /\ parsed.none
    /\ search_exit = "returned"
    /\ search_result = <<>>

\* The weights of a relevance CASE in text order: the token after each THEN.
WeightsAt(sql, thens) ==
    [k \in 1..Cardinality(thens) |->
        sql[(CHOOSE p \in thens : Cardinality({q \in thens : q < p}) = k - 1) + 1]]
ThenWeights(sql) == WeightsAt(sql, {i \in 1..(Len(sql) - 1) : sql[i] = "THEN"})

\* The number a weight spells, among those up to top.
Numeral(token, top) == CHOOSE n \in 0..top : ToString(n) = token

\* The weights the claim gives a group of total columns: for the column at
\* 0-based index i, total*2 + 2 - i for the exact match and total - i for the
\* regex match.
ClaimedWeights(total) ==
    Flatten([k \in 1..total |-> <<ToString(total * 2 + 2 - (k - 1)), ToString(total - (k - 1))>>])

\* Every exact weight is above every regex weight.
ExactOutweighs(weights, total) ==
    \A i, j \in 1..total :
        Numeral(weights[2 * i - 1], 3 * total) > Numeral(weights[2 * j], 3 * total)

\* The restricted compiler compiled a clause without {column}.
VagueRestrictedCompiled ==
    /\ search_op = "get_sql_query_from_user_input_restricted"
    /\ search_exit = "returned"
    /\ Find(search_result[1].sql, <<"CASE">>, 1) # 0

\* C24: in vague mode, for a group with totalColumns columns, the column at
\* 0-based index i scores an exact match at totalColumns*2 + 2 - i and a
\* regex match at totalColumns - i; hence an exact match on any column
\* outweighs a regex match on any column.
C24_RelevanceWeights ==
    VagueRestrictedCompiled =>
        /\ ThenWeights(search_result[1].sql) = ClaimedWeights(SearchableColumns(restricted_table))
        /\ ExactOutweighs(ThenWeights(search_result[1].sql), SearchableColumns(restricted_table))

\* The last n tokens of a text.
Ending(text, n) == SubSeq(text, Len(text) - n + 1, Len(text))

\* The conditions the merge appended for the second clause: what ends the
\* WHERE of the merged query, as long as the conditions the clause spells.
Contributed(where, conditions) == Ending(where, Len(conditions))

\* C25: in a cross-group merged query, each condition the second clause
\* contributes keeps the operator written: "=" gives "<table>.<column> = ?"
\* and ":" gives "<table>.<column> REGEXP ?", <table> the table of the second
\* group that declares the column.
C25_MergedKeepsOperator ==
    (ChainedPairCompiled /\ search_exit = "returned" /\ Len(search_result) = 1) =>
        Contributed(WhereOf(search_result[1].sql), ExactWhere(written[2])) = ExactWhere(written[2])

\* ------------------------------------------------- more edit lock properties
\* Thread t, which never created a lock file, ends its finally clause in this
\* step while a thread of another client holds the lock file of its key.
CancelledWhileWaiting(t) ==
    /\ Thread(t).pc \in {"finally", "fin_exists", "remove"}
    /\ threads'[t].pc = "done"
    /\ Thread(t).called = 0
    /\ cancel_event[Thread(t).client]
    /\ Thread(t).key \in edit_locks
    /\ creator[Thread(t).key] \in holders[Thread(t).key]
    /\ Thread(creator[Thread(t).key]).client # Thread(t).client

\* C26: cancelling a request that is still waiting never removes an edit lock
\* held by someone else: when client A holds the lock file of a key and the
\* request of client B for that key, cancelled while it waited, ends, the
\* lock file still exists and A still holds it.
C26_CancelWaitingKeepsLock ==
    [][\A t \in ThreadIds :
          CancelledWhileWaiting(t) =>
              /\ Thread(t).key \in edit_locks'
              /\ holders'[Thread(t).key] = holders[Thread(t).key]]_vars

\* Client c holds the edit lock of key k: a thread it started created the
\* lock file and ran its callback.
HoldsEditLock(c, k) ==
    /\ k \in edit_locks
    /\ creator[k] \in holders[k]
    /\ Thread(creator[k]).client = c

\* C27: the edit lock of a row covers the write of that row: when
\* finalize_edit of the client that holds the lock comes to its update_* call,
\* the lock file of the row still exists, so that no other client can create
\* it before the changes are written.
C27_LockCoversWrite ==
    [][\A c \in Clients :
          (/\ main[c].caller = "finalize_edit"
           /\ HoldsEditLock(c, main[c].key)
           /\ main'[c].pc = "fin_update")
              => main[c].key \in edit_locks']_vars

\* ------------------------------------------------- more facade properties
\* C28: a rejected update is atomic: when update_persons, update_cases or
\* update_documents ends with ValueError for an unknown keyword, none of its
\* statements has been executed (the store and the change log are as before
\* the call), whatever the order of the keywords.
C28_RejectedUpdateAtomic ==
    (attr_op \in {"update_persons", "update_cases", "update_documents"} /\ attr_exit = "ValueError")
        => attr_sql = 0

\* ------------------------------------------------- placeholder properties
\* The positions of the placeholders of a query text.
Placeholders(sql) == {p \in 1..Len(sql) : sql[p] = "?"}

\* The parameter bound to the placeholder at p: as many parameters before it
\* as placeholders.
ParamAt(params, marks, p) == params[Cardinality({q \in marks : q <= p})]

\* The (column, value) pairs the clauses spell, and the patterns of their
\* terms without {column}.
WrittenPairs(clauses) ==
    UNION {{<<clauses[c].main.column, clauses[c].main.term>>}
           \cup {<<clauses[c].search_terms[i].column, clauses[c].search_terms[i].value>> :
                    i \in 1..Len(clauses[c].search_terms)} : c \in 1..Len(clauses)}
VaguePatterns(clauses) ==
    {<<".*">> \o clauses[c].main.term \o <<".*">> : c \in {d \in 1..Len(clauses) : clauses[d].main.column = None}}

\* The parameter is the pattern of a term without {column}, or the value
\* written (stripped or not) for the column the placeholder tests.
Belongs(column, param, pairs, patterns) ==
    \/ param \in patterns
    \/ \E pr \in pairs : pr[1] = <<column>> /\ param \in {pr[2], strip(pr[2])}

\* As many placeholders as parameters, each parameter at its placeholder.
Aligned(sql, params, marks, pairs, patterns) ==
    /\ Cardinality(marks) = Len(params)
    /\ \A p \in marks : p > 2 /\ Belongs(sql[p - 2], ParamAt(params, marks, p), pairs, patterns)

\* C29: in every query the compilers produce (exact, vague, fan-out, merged
\* chain, restricted) the number of "?" placeholders equals the number of
\* parameters, and the i-th parameter belongs to the i-th placeholder in text
\* order.
C29_PlaceholdersMatchParams ==
    (search_op \in {"get_sql_query_from_user_input", "get_sql_query_from_user_input_restricted"}
     /\ search_exit = "returned") =>
        \A e \in 1..Len(search_result) :
            Aligned(search_result[e].sql, search_result[e].params, Placeholders(search_result[e].sql),
                    WrittenPairs(parsed.clauses), VaguePatterns(parsed.clauses))

\* A chain of three clauses with {column} was merged: three conditions,
\* three parameters.
C29_Witness ==
    /\ search_op = "get_sql_query_from_user_input"
    /\ search_exit = "returned"
    /\ Len(written) = 3
    /\ Len(search_result) = 1
    /\ Len(search_result[1].params) = 3
    /\ Cardinality(Placeholders(search_result[1].sql)) = 3

\* C30: no facade operation requests the write lock from inside a write-lock
\* scope, so a process polls an existing marker file only while another process
\* is inside a scope; and a process running alone (every other process idle
\* throughout, no marker file at the start) finishes every operation it starts.
WaitsOnlyOnOthers ==
    \A p \in Procs :
        (pc[p] = "wl_check" /\ write_lock) => \E q \in Procs \ {p} : InWriteScope(q)

OthersIdle(p) == \A q \in Procs \ {p} : pc[q] = "idle"

C30_NoNestedWriteLock ==
    /\ []WaitsOnlyOnOthers
    /\ \A p \in Procs : ([]OthersIdle(p)) => [](pc[p] # "idle" => <>(pc[p] = "idle"))

\* One _execute, the only call made, ran to its end and left no marker file.
C30_Witness ==
    /\ calls = 1
    /\ AllIdle
    /\ last_exit = "ok"
    /\ changes_log # <<>>
    /\ ~write_lock

====
